---- MODULE Spec2Model ----
(***************************************************************************)
(* A model of cali-log.go: the workout logger's two storage backends       *)
(* (year-partitioned local files, a Google Sheets range), the entry line   *)
(* format, the lookup tables and the command dispatcher.                   *)
(*                                                                         *)
(* Go strings are TLA+ strings; Len, SubSeq and \o act on them character   *)
(* by character, so slicing (date[:4]), prefix tests, trimming and         *)
(* splitting are computed as the Go library computes them.  A file is the  *)
(* sequence of its lines, each written with its newline: every write of    *)
(* the program ends with one.                                              *)
(***************************************************************************)
EXTENDS Integers, Sequences, FiniteSets, TLC

VARIABLES backend, files, rows, stored, pre, ret, pc, env, trace

vars == <<backend, files, rows, stored, pre, ret, pc, env, trace>>

storeVars == <<backend, files, rows, stored, pre, ret>>

procVars == <<pc, env, trace>>

(***************************************************************************)
(* Bounds of the model.                                                    *)
(***************************************************************************)
\* most entries held by the storage at once
MaxStored == 2

(***************************************************************************)
(* The Go library functions the program calls.                             *)
(***************************************************************************)
Rest(s, i) == SubSeq(s, i, Len(s))

\* the positions (from 1) at which the character c stands in s
Positions(s, c) == {i \in 1..Len(s) : SubSeq(s, i, i) = c}

\* strings.IndexByte, counted from 1: the first position of c in s, 0 if absent
IndexByte(s, c) ==
  LET at == Positions(s, c)
  IN IF at = {} THEN 0 ELSE CHOOSE i \in at : \A j \in at : i <= j

\* unicode.IsSpace on the characters a TLA+ string can hold
IsSpace(c) == c \in {" ", "\t", "\n", "\r", "\f"}

RECURSIVE TrimLeft(_)
TrimLeft(s) ==
  IF s # "" /\ IsSpace(SubSeq(s, 1, 1)) THEN TrimLeft(Rest(s, 2)) ELSE s

RECURSIVE TrimRight(_)
TrimRight(s) ==
  IF s # "" /\ IsSpace(SubSeq(s, Len(s), Len(s)))
  THEN TrimRight(SubSeq(s, 1, Len(s) - 1)) ELSE s

\* strings.TrimSpace
TrimSpace(s) == TrimRight(TrimLeft(s))

\* strings.HasPrefix
HasPrefix(s, prefix) ==
  Len(s) >= Len(prefix) /\ SubSeq(s, 1, Len(prefix)) = prefix

\* strings.Split(s, sep) for a one-character sep: the texts between the
\* separators, one more than there are separators (Split("") = [""])
Split(s, sep) ==
  LET at == Positions(s, sep)
      n == Cardinality(at)
      cut == [k \in 0..(n + 1) |->
                IF k = 0 THEN 0
                ELSE IF k = n + 1 THEN Len(s) + 1
                ELSE CHOOSE i \in at : Cardinality({j \in at : j < i}) = k - 1]
  IN [k \in 1..(n + 1) |-> SubSeq(s, cut[k - 1] + 1, cut[k] - 1)]

\* bufio.ScanLines drops one trailing carriage return of a line
DropCR(s) ==
  IF s # "" /\ SubSeq(s, Len(s), Len(s)) = "\r"
  THEN SubSeq(s, 1, Len(s) - 1) ELSE s

\* every scanner.Text() of a bufio.Scanner over a file: its lines, in order
ScanLines(lines) == [k \in 1..Len(lines) |-> DropCR(lines[k])]

\* the lines a written text adds to a file: the text is cut at its newlines
\* (every text the program writes ends with one)
WrittenLines(text) ==
  LET parts == Split(text, "\n")
  IN SubSeq(parts, 1, Len(parts) - 1)

Digits == "0123456789"

IsDigit(c) == IndexByte(Digits, c) # 0

RECURSIVE AllDigits(_)
AllDigits(s) == s = "" \/ (IsDigit(SubSeq(s, 1, 1)) /\ AllDigits(Rest(s, 2)))

RECURSIVE ParseNat(_)
ParseNat(s) ==
  IF s = "" THEN 0
  ELSE 10 * ParseNat(SubSeq(s, 1, Len(s) - 1))
       + (IndexByte(Digits, SubSeq(s, Len(s), Len(s))) - 1)

\* strconv.Atoi: an optional sign, then one or more decimal digits
Atoi(s) ==
  LET signed == s # "" /\ SubSeq(s, 1, 1) \in {"+", "-"}
      body == IF signed THEN Rest(s, 2) ELSE s
  IN IF body = "" \/ ~AllDigits(body) THEN [ok |-> FALSE, val |-> 0]
     ELSE [ok |-> TRUE,
           val |-> IF signed /\ SubSeq(s, 1, 1) = "-"
                   THEN 0 - ParseNat(body) ELSE ParseNat(body)]

RECURSIVE ItoaNat(_)
ItoaNat(n) ==
  IF n < 10 THEN SubSeq(Digits, n + 1, n + 1)
  ELSE ItoaNat(n \div 10) \o SubSeq(Digits, (n % 10) + 1, (n % 10) + 1)

\* the %d verb of fmt.Sprintf
Itoa(n) == IF n < 0 THEN "-" \o ItoaNat(0 - n) ELSE ItoaNat(n)

Lower(c) ==
  LET i == IndexByte("ABCDEFGHIJKLMNOPQRSTUVWXYZ", c)
  IN IF i = 0 THEN c ELSE SubSeq("abcdefghijklmnopqrstuvwxyz", i, i)

RECURSIVE ToLower(_)
ToLower(s) == IF s = "" THEN "" ELSE Lower(SubSeq(s, 1, 1)) \o ToLower(Rest(s, 2))

\* strings.EqualFold on ASCII text
EqualFold(s, t) == Len(s) = Len(t) /\ ToLower(s) = ToLower(t)

(***************************************************************************)
(* WorkoutEntry and its line form.                                         *)
(***************************************************************************)
WorkoutEntry(date, day, exercise, level, repsSets, goal, comment, rowIndex) ==
  [Date |-> date, Day |-> day, Exercise |-> exercise, Level |-> level,
   RepsSets |-> repsSets, Goal |-> goal, Comment |-> comment, RowIndex |-> rowIndex]

ZeroEntry == WorkoutEntry("", "", "", "", "", "", "", 0)

parseLogLine(line) ==
  LET parts == Split(line, "|")
  IN IF Len(parts) < 7 THEN [entry |-> ZeroEntry, ok |-> FALSE]
     ELSE [entry |-> WorkoutEntry(parts[1], parts[2], parts[3], parts[4],
                                  parts[5], parts[6], parts[7], 0),
           ok |-> TRUE]

\* serializeLogEntry with the goal and the comment in each other's place
serializeLogEntrySwapped(entry) ==
  entry.Date \o "|" \o entry.Day \o "|" \o entry.Exercise \o "|" \o entry.Level
  \o "|" \o entry.RepsSets \o "|" \o entry.Comment \o "|" \o entry.Goal \o "\n"

serializeLogEntry(entry) ==
  entry.Date \o "|" \o entry.Day \o "|" \o entry.Exercise \o "|" \o entry.Level
  \o "|" \o entry.RepsSets \o "|" \o entry.Goal \o "|" \o entry.Comment \o "\n"

(***************************************************************************)
(* The local backend: one file per year under logDir.  files maps the name *)
(* of every existing year file to its lines.                               *)
(***************************************************************************)
\* time.Now().Year()
NowYear == 2026

\* fmt.Sprintf("workout-%d.log", year)
LogFileD(year) == "workout-" \o Itoa(year) \o ".log"

\* fmt.Sprintf("workout-%s.log", year)
LogFileS(year) == "workout-" \o year \o ".log"

\* yearFromDate taking every date for one of the current year
yearFromDateNow(date) == NowYear

yearFromDate(date) ==
  IF Len(date) < 4 THEN NowYear
  ELSE LET a == Atoi(SubSeq(date, 1, 4))
       IN IF ~a.ok THEN NowYear ELSE a.val

\* the file system after name holds content
WriteFile(fs, name, content) ==
  [n \in (DOMAIN fs) \cup {name} |-> IF n = name THEN content ELSE fs[n]]

RECURSIVE ParseAllUntilBad(_)
\* ParseAll leaving the loop at the first line that does not parse
ParseAllUntilBad(lines) ==
  IF lines = <<>> THEN <<>>
  ELSE LET p == parseLogLine(TrimSpace(Head(lines)))
       IN IF p.ok THEN <<p.entry>> \o ParseAllUntilBad(Tail(lines)) ELSE <<>>

RECURSIVE ParseAll(_)
\* the scan loop of Recent and LastTrainingDay: every line that parses, trimmed
ParseAll(lines) ==
  IF lines = <<>> THEN <<>>
  ELSE LET p == parseLogLine(TrimSpace(Head(lines)))
       IN (IF p.ok THEN <<p.entry>> ELSE <<>>) \o ParseAll(Tail(lines))

\* io names the step of the call that meets an I/O failure ("ok": none does)
\* FileAppend opening the file with O_TRUNC in place of O_APPEND
FileAppendTruncates(fs, entry, io) ==
  LET logFile == LogFileD(yearFromDate(entry.Date))
  IN CASE io = "mkdir" -> [files |-> fs, err |-> "io"]
       [] io = "open" -> [files |-> fs, err |-> "io"]
       [] io = "write" -> [files |-> WriteFile(fs, logFile, <<>>), err |-> "io"]
       [] OTHER -> [files |-> WriteFile(fs, logFile, WrittenLines(serializeLogEntry(entry))),
                    err |-> "none"]

FileAppend(fs, entry, io) ==
  LET logFile == LogFileD(yearFromDate(entry.Date))
      old == IF logFile \in DOMAIN fs THEN fs[logFile] ELSE <<>>
  IN CASE io = "mkdir" -> [files |-> fs, err |-> "io"]
       [] io = "open" -> [files |-> fs, err |-> "io"]
       [] io = "write" -> [files |-> WriteFile(fs, logFile, old), err |-> "io"]
       [] OTHER -> [files |-> WriteFile(fs, logFile, old \o WrittenLines(serializeLogEntry(entry))),
                    err |-> "none"]

\* FileRecent with the slice taken at the wrong end: the oldest limit entries
FileRecentOldest(fs, limit, io) ==
  LET logFile == LogFileD(NowYear)
      entries == ParseAll(ScanLines(fs[logFile]))
  IN CASE io = "open" -> [out |-> <<>>, err |-> "io"]
       [] logFile \notin DOMAIN fs -> [out |-> <<>>, err |-> "none"]
       [] io = "scan" -> [out |-> <<>>, err |-> "io"]
       [] limit < 0 -> [out |-> <<>>, err |-> "panic"]
       [] Len(entries) <= limit -> [out |-> entries, err |-> "none"]
       [] OTHER -> [out |-> SubSeq(entries, 1, limit), err |-> "none"]

FileRecent(fs, limit, io) ==
  LET logFile == LogFileD(NowYear)
      entries == ParseAll(ScanLines(fs[logFile]))
  IN CASE io = "open" -> [out |-> <<>>, err |-> "io"]
       [] logFile \notin DOMAIN fs -> [out |-> <<>>, err |-> "none"]
       [] io = "scan" -> [out |-> <<>>, err |-> "io"]
       [] limit < 0 -> [out |-> <<>>, err |-> "panic"]
       [] Len(entries) <= limit -> [out |-> entries, err |-> "none"]
       [] OTHER -> [out |-> SubSeq(entries, Len(entries) - limit + 1, Len(entries)),
                    err |-> "none"]

RECURSIVE SearchLinesNewestFirst(_, _)
\* SearchLines with every match put in front of the results, not behind them
SearchLinesNewestFirst(lines, date) ==
  IF lines = <<>> THEN <<>>
  ELSE LET line == TrimSpace(Head(lines))
           p == parseLogLine(line)
       IN SearchLinesNewestFirst(Tail(lines), date)
          \o (IF HasPrefix(line, date) /\ p.ok THEN <<p.entry>> ELSE <<>>)

RECURSIVE SearchLines(_, _)
\* the scan loop of SearchByDate
SearchLines(lines, date) ==
  IF lines = <<>> THEN <<>>
  ELSE LET line == TrimSpace(Head(lines))
           p == parseLogLine(line)
       IN (IF HasPrefix(line, date) /\ p.ok THEN <<p.entry>> ELSE <<>>)
          \o SearchLines(Tail(lines), date)

\* FileSearchByDate taking every failure of the open or the scan for absence
FileSearchByDateLenient(fs, date, io) ==
  LET logFile == LogFileS(SubSeq(date, 1, 4))
  IN CASE Len(date) < 4 -> [out |-> <<>>, err |-> "panic"]
       [] io # "ok" -> [out |-> <<>>, err |-> "none"]
       [] logFile \notin DOMAIN fs -> [out |-> <<>>, err |-> "none"]
       [] OTHER -> [out |-> SearchLines(ScanLines(fs[logFile]), date), err |-> "none"]

FileSearchByDate(fs, date, io) ==
  LET logFile == LogFileS(SubSeq(date, 1, 4))
  IN CASE Len(date) < 4 -> [out |-> <<>>, err |-> "panic"]
       [] io = "open" -> [out |-> <<>>, err |-> "io"]
       [] logFile \notin DOMAIN fs -> [out |-> <<>>, err |-> "none"]
       [] io = "scan" -> [out |-> <<>>, err |-> "io"]
       [] OTHER -> [out |-> SearchLines(ScanLines(fs[logFile]), date), err |-> "none"]

\* MatchingLineIdx without the date test: the index then counts all the lines
MatchingLineIdxAllLines(allLines, date) == [k \in 1..Len(allLines) |-> k]

\* the positions (from 1) of the lines that start with date, in file order
MatchingLineIdx(allLines, date) ==
  SelectSeq([k \in 1..Len(allLines) |-> k], LAMBDA k : HasPrefix(allLines[k], date))

RemoveAt(seq, k) == SubSeq(seq, 1, k - 1) \o SubSeq(seq, k + 1, Len(seq))

RECURSIVE JoinLines(_)
\* the rewrite loop: every line is written followed by a newline
JoinLines(lines) ==
  IF lines = <<>> THEN <<>>
  ELSE WrittenLines(Head(lines) \o "\n") \o JoinLines(Tail(lines))

\* FileRemoveByDateIndex with the file re-created before the index is checked
FileRemoveCreatesFirst(fs, date, index, io, wrote) ==
  LET year == SubSeq(date, 1, 4)
      logFile == LogFileS(year)
      allLines == ScanLines(fs[logFile])
      matchingLineIdx == MatchingLineIdx(allLines, date)
      toRemove == matchingLineIdx[index + 1]
      remaining == RemoveAt(allLines, toRemove)
  IN CASE Len(date) < 4 -> [files |-> fs, err |-> "panic"]
       [] logFile \notin DOMAIN fs -> [files |-> fs, err |-> "no workout log found"]
       [] index < 0 \/ index >= Len(matchingLineIdx) ->
            [files |-> WriteFile(fs, logFile, <<>>), err |-> "invalid remove index"]
       [] OTHER -> [files |-> WriteFile(fs, logFile, JoinLines(remaining)), err |-> "none"]

\* wrote: the lines written before the failing WriteString, when io = "write"
FileRemoveByDateIndex(fs, date, index, io, wrote) ==
  LET year == SubSeq(date, 1, 4)
      logFile == LogFileS(year)
      allLines == ScanLines(fs[logFile])
      matchingLineIdx == MatchingLineIdx(allLines, date)
      toRemove == matchingLineIdx[index + 1]
      remaining == RemoveAt(allLines, toRemove)
  IN CASE Len(date) < 4 -> [files |-> fs, err |-> "panic"]
       [] io = "open" -> [files |-> fs, err |-> "io"]
       [] logFile \notin DOMAIN fs -> [files |-> fs, err |-> "no workout log found"]
       [] io = "scan" -> [files |-> fs, err |-> "io"]
       [] index < 0 \/ index >= Len(matchingLineIdx) ->
            [files |-> fs, err |-> "invalid remove index"]
       [] io = "create" -> [files |-> fs, err |-> "io"]
       [] io = "write" /\ wrote < Len(remaining) ->
            [files |-> WriteFile(fs, logFile, JoinLines(SubSeq(remaining, 1, wrote))),
             err |-> "io"]
       [] OTHER -> [files |-> WriteFile(fs, logFile, JoinLines(remaining)), err |-> "none"]

\* FileLastTrainingDay keeping the first entry that parses, not the last
FileFirstTrainingDay(fs, io) ==
  LET logFile == LogFileD(NowYear)
      entries == ParseAll(ScanLines(fs[logFile]))
  IN CASE io = "open" -> [out |-> <<"", "">>, err |-> "io"]
       [] logFile \notin DOMAIN fs -> [out |-> <<"", "">>, err |-> "none"]
       [] io = "scan" -> [out |-> <<"", "">>, err |-> "io"]
       [] entries = <<>> -> [out |-> <<"", "">>, err |-> "none"]
       [] OTHER -> [out |-> <<entries[1].Day, entries[1].Date>>, err |-> "none"]

FileLastTrainingDay(fs, io) ==
  LET logFile == LogFileD(NowYear)
      entries == ParseAll(ScanLines(fs[logFile]))
  IN CASE io = "open" -> [out |-> <<"", "">>, err |-> "io"]
       [] logFile \notin DOMAIN fs -> [out |-> <<"", "">>, err |-> "none"]
       [] io = "scan" -> [out |-> <<"", "">>, err |-> "io"]
       [] entries = <<>> -> [out |-> <<"", "">>, err |-> "none"]
       [] OTHER -> [out |-> <<entries[Len(entries)].Day, entries[Len(entries)].Date>>,
                    err |-> "none"]

(***************************************************************************)
(* The remote backend: the range A:G of one worksheet.  rows holds the     *)
(* sheet's rows from the top, each a sequence of cell texts.               *)
(***************************************************************************)
RECURSIVE DropEmptyTail(_)
DropEmptyTail(row) ==
  IF row # <<>> /\ row[Len(row)] = "" THEN DropEmptyTail(SubSeq(row, 1, Len(row) - 1))
  ELSE row

\* Spreadsheets.Values.Get: every row, without its trailing empty cells
ValuesGet(sheet) == [r \in 1..Len(sheet) |-> DropEmptyTail(sheet[r])]

\* Spreadsheets.Values.Append with INSERT_ROWS: the row goes below the last one
ValuesAppend(sheet, values) == sheet \o values

\* DeleteDimension taking endIndex for the last row to delete
DeleteDimensionThrough(sheet, startIndex, endIndex) ==
  SelectSeq([r \in 1..Len(sheet) |-> [i |-> r - 1, row |-> sheet[r]]],
            LAMBDA x : x.i < startIndex \/ x.i > endIndex)

\* a DeleteDimension request for the rows [startIndex, endIndex), counted from 0
DeleteDimension(sheet, startIndex, endIndex) ==
  SelectSeq([r \in 1..Len(sheet) |-> [i |-> r - 1, row |-> sheet[r]]],
            LAMBDA x : x.i < startIndex \/ x.i >= endIndex)

DeleteRows(sheet, startIndex, endIndex) ==
  LET kept == DeleteDimension(sheet, startIndex, endIndex)
  IN [r \in 1..Len(kept) |-> kept[r].row]

valueAt(row, idx) == IF idx < 0 \/ idx >= Len(row) THEN "" ELSE row[idx + 1]

\* ReadRows numbering the rows it keeps, not the rows it reads
ReadRowsKept(values, rowIndex) ==
  LET rest == SubSeq(values, rowIndex + 1, Len(values))
      kept == SelectSeq(rest, LAMBDA row : /\ valueAt(row, 0) # ""
                                            /\ ~EqualFold(valueAt(row, 0), "date"))
  IN [k \in 1..Len(kept) |->
        WorkoutEntry(valueAt(kept[k], 0), valueAt(kept[k], 1), valueAt(kept[k], 2),
                     valueAt(kept[k], 3), valueAt(kept[k], 4), valueAt(kept[k], 5),
                     valueAt(kept[k], 6), rowIndex + k - 1)]

RECURSIVE ReadRows(_, _)
\* the loop of readAllEntries over resp.Values, from raw row rowIndex on
ReadRows(values, rowIndex) ==
  IF rowIndex >= Len(values) THEN <<>>
  ELSE LET row == values[rowIndex + 1]
           entry == WorkoutEntry(valueAt(row, 0), valueAt(row, 1), valueAt(row, 2),
                                 valueAt(row, 3), valueAt(row, 4), valueAt(row, 5),
                                 valueAt(row, 6), rowIndex)
       IN (IF entry.Date = "" \/ EqualFold(entry.Date, "date") THEN <<>> ELSE <<entry>>)
          \o ReadRows(values, rowIndex + 1)

readAllEntries(sheet, io) ==
  IF io # "ok" THEN [out |-> <<>>, err |-> "io"]
  ELSE [out |-> ReadRows(ValuesGet(sheet), 0), err |-> "none"]

SheetsAppend(sheet, entry, io) ==
  IF io # "ok" THEN [rows |-> sheet, err |-> "io"]
  ELSE [rows |-> ValuesAppend(sheet, <<<<entry.Date, entry.Day, entry.Exercise, entry.Level,
                                        entry.RepsSets, entry.Goal, entry.Comment>>>>),
        err |-> "none"]

SheetsRecent(sheet, limit, io) ==
  LET r == readAllEntries(sheet, io)
      entries == r.out
  IN CASE r.err # "none" -> [out |-> <<>>, err |-> r.err]
       [] limit < 0 -> [out |-> <<>>, err |-> "panic"]
       [] Len(entries) <= limit -> [out |-> entries, err |-> "none"]
       [] OTHER -> [out |-> SubSeq(entries, Len(entries) - limit + 1, Len(entries)),
                    err |-> "none"]

SheetsSearchByDate(sheet, date, io) ==
  LET r == readAllEntries(sheet, io)
  IN IF r.err # "none" THEN [out |-> <<>>, err |-> r.err]
     ELSE [out |-> SelectSeq(r.out, LAMBDA entry : entry.Date = date), err |-> "none"]

\* io = "read": the fetch fails; io = "update": the batch update fails;
\* requests: the requests of the batch update sent, each a row range
SheetsRemoveByDateIndex(sheet, date, index, io) ==
  LET r == readAllEntries(sheet, IF io = "read" THEN "read" ELSE "ok")
      matches == SelectSeq(r.out, LAMBDA entry : entry.Date = date)
      targetRow == matches[index + 1].RowIndex
      req == [StartIndex |-> targetRow, EndIndex |-> targetRow + 1]
  IN CASE r.err # "none" -> [rows |-> sheet, err |-> r.err, requests |-> <<>>]
       [] index < 0 \/ index >= Len(matches) ->
            [rows |-> sheet, err |-> "invalid remove index", requests |-> <<>>]
       [] io = "update" -> [rows |-> sheet, err |-> "io", requests |-> <<req>>]
       [] OTHER -> [rows |-> DeleteRows(sheet, req.StartIndex, req.EndIndex),
                    err |-> "none", requests |-> <<req>>]

SheetsLastTrainingDay(sheet, io) ==
  LET r == readAllEntries(sheet, io)
      entries == r.out
  IN CASE r.err # "none" -> [out |-> <<"", "">>, err |-> r.err]
       [] Len(entries) = 0 -> [out |-> <<"", "">>, err |-> "none"]
       [] OTHER -> [out |-> <<entries[Len(entries)].Day, entries[Len(entries)].Date>>,
                    err |-> "none"]

(***************************************************************************)
(* The storage as a state machine: one backend, chosen at start, driven    *)
(* through the five operations of the Storage interface.                   *)
(*   stored  the entries appended and not yet removed, oldest first, as    *)
(*           they were passed to Append (history kept for the properties)  *)
(*   pre     files, rows and stored before the last operation              *)
(*   ret     the last operation, its arguments and what it returned, and   *)
(*           the delete requests it sent to the sheet                      *)
(***************************************************************************)
HeaderRow == <<"Date", "Day", "Exercise", "Level", "RepsxSets", "Goal", "Comment">>

\* the entries passed to Append: two of one day (one with an empty comment),
\* one of the next day whose day label holds the delimiter, one of last year
Entries ==
  { WorkoutEntry("2026-01-24", "A", "Pushups", "Half", "20x2", "25x2", "", 0),
    WorkoutEntry("2026-01-24", "B", "Pullups", "Full", "8x2", "10x2", "ok", 0),
    WorkoutEntry("2026-01-25", "A|B", "Squats", "Half", "40x2", "50x2", "x", 0),
    WorkoutEntry("2025-12-30", "C", "Bridges", "Full", "9x2", "15x2", "late", 0) }

\* the dates passed to SearchByDate and RemoveByDateIndex: the dates of the
\* entries, a proper prefix of a date, and a string shorter than a year
Dates == {"2026-01-24", "2026-01-25", "2025-12-30", "2026-01-2", "202"}

Limits == 0..MaxStored

Indexes == (0 - 1)..MaxStored

NoRet ==
  [op |-> "none", io |-> "ok", entry |-> ZeroEntry, date |-> "", index |-> 0, limit |-> 0,
   out |-> <<>>, err |-> "none", requests |-> <<>>]

Snapshot == [files |-> files, rows |-> rows, stored |-> stored]

\* the storage unit an entry is appended to, and the text it is stored as
UnitOf(entry) ==
  IF backend = "local" THEN LogFileD(yearFromDate(entry.Date)) ELSE "sheet"

TextOf(entry) ==
  IF backend = "local"
  THEN SubSeq(serializeLogEntry(entry), 1, Len(serializeLogEntry(entry)) - 1)
  ELSE <<entry.Date, entry.Day, entry.Exercise, entry.Level, entry.RepsSets,
         entry.Goal, entry.Comment>>

\* per storage unit, the texts it holds, top to bottom
Units(fs, sheet) ==
  IF backend = "local" THEN fs
  ELSE [n \in {"sheet"} |-> SelectSeq(sheet, LAMBDA row : row # HeaderRow)]

RECURSIVE Survivors(_, _)
\* the entries of st whose text is still held, matched top to bottom
Survivors(st, units) ==
  IF st = <<>> THEN <<>>
  ELSE LET e == Head(st)
           u == UnitOf(e)
           held == IF u \in DOMAIN units THEN units[u] ELSE <<>>
       IN IF held # <<>> /\ Head(held) = TextOf(e)
          THEN <<e>> \o Survivors(Tail(st), [units EXCEPT ![u] = Tail(held)])
          ELSE Survivors(Tail(st), units)

StoreInit ==
  /\ backend \in {"local", "sheets"}
  /\ files = <<>>
  /\ rows \in (IF backend = "local" THEN {<<>>} ELSE {<<>>, <<HeaderRow>>})
  /\ stored = <<>>
  /\ pre = [files |-> files, rows |-> rows, stored |-> stored]
  /\ ret = NoRet

\* the call storage.Append(entry) and what it leaves behind
StoreAppend(entry, io) ==
  /\ LET f == FileAppend(files, entry, io)
         s == SheetsAppend(rows, entry, io)
         err == IF backend = "local" THEN f.err ELSE s.err
     IN /\ files' = (IF backend = "local" THEN f.files ELSE files)
        /\ rows' = (IF backend = "local" THEN rows ELSE s.rows)
        /\ stored' = (IF err = "none" THEN stored \o <<entry>> ELSE stored)
        /\ ret' = [NoRet EXCEPT !.op = "Append", !.io = io, !.entry = entry, !.err = err]
  /\ pre' = Snapshot
  /\ UNCHANGED backend

StoreRecent(limit, io) ==
  /\ LET r == IF backend = "local" THEN FileRecent(files, limit, io)
              ELSE SheetsRecent(rows, limit, io)
     IN ret' = [NoRet EXCEPT !.op = "Recent", !.io = io, !.limit = limit, !.out = r.out, !.err = r.err]
  /\ pre' = Snapshot
  /\ UNCHANGED <<backend, files, rows, stored>>

StoreSearchByDate(date, io) ==
  /\ LET r == IF backend = "local" THEN FileSearchByDate(files, date, io)
              ELSE SheetsSearchByDate(rows, date, io)
     IN ret' = [NoRet EXCEPT !.op = "SearchByDate", !.io = io, !.date = date, !.out = r.out,
                             !.err = r.err]
  /\ pre' = Snapshot
  /\ UNCHANGED <<backend, files, rows, stored>>

StoreRemoveByDateIndex(date, index, io, wrote) ==
  /\ LET f == FileRemoveByDateIndex(files, date, index, io, wrote)
         s == SheetsRemoveByDateIndex(rows, date, index, io)
         err == IF backend = "local" THEN f.err ELSE s.err
     IN /\ files' = (IF backend = "local" THEN f.files ELSE files)
        /\ rows' = (IF backend = "local" THEN rows ELSE s.rows)
        /\ ret' = [NoRet EXCEPT !.op = "RemoveByDateIndex", !.io = io, !.date = date,
                                !.index = index, !.err = err,
                                !.requests = IF backend = "local" THEN <<>>
                                             ELSE s.requests]
  /\ stored' = (IF files' = files /\ rows' = rows THEN stored
                ELSE Survivors(stored, Units(files', rows')))
  /\ pre' = Snapshot
  /\ UNCHANGED backend

StoreLastTrainingDay(io) ==
  /\ LET r == IF backend = "local" THEN FileLastTrainingDay(files, io)
              ELSE SheetsLastTrainingDay(rows, io)
     IN ret' = [NoRet EXCEPT !.op = "LastTrainingDay", !.io = io, !.out = r.out, !.err = r.err]
  /\ pre' = Snapshot
  /\ UNCHANGED <<backend, files, rows, stored>>

\* the interface driven directly, the process standing by
CallAppend(entry, io) ==
  Len(stored) < MaxStored /\ StoreAppend(entry, io) /\ UNCHANGED procVars

CallRecent(limit, io) == StoreRecent(limit, io) /\ UNCHANGED procVars

CallSearchByDate(date, io) == StoreSearchByDate(date, io) /\ UNCHANGED procVars

CallRemoveByDateIndex(date, index, io, wrote) ==
  StoreRemoveByDateIndex(date, index, io, wrote) /\ UNCHANGED procVars

CallLastTrainingDay(io) == StoreLastTrainingDay(io) /\ UNCHANGED procVars

Init ==
  /\ StoreInit
  /\ pc = "idle"
  /\ env = <<>>
  /\ trace = <<>>

\* every call of the interface, each meeting no I/O failure
Next ==
  \/ \E entry \in Entries : CallAppend(entry, "ok")
  \/ \E limit \in Limits : CallRecent(limit, "ok")
  \/ \E date \in Dates : CallSearchByDate(date, "ok")
  \/ \E date \in Dates, index \in Indexes : CallRemoveByDateIndex(date, index, "ok", 0)
  \/ CallLastTrainingDay("ok")

Spec == Init /\ [][Next]_vars

(***************************************************************************)
(* The local backend on a file system that can fail: every call may meet   *)
(* an I/O failure at one of its steps.  An open that fails with "open" has *)
(* failed for another reason than the absence of the file.                 *)
(***************************************************************************)
FaultEntries ==
  { WorkoutEntry("2026-01-24", "A", "Pushups", "Half", "20x2", "25x2", "", 0),
    WorkoutEntry("2026-01-24", "B", "Pullups", "Full", "8x2", "10x2", "ok", 0),
    WorkoutEntry("2025-12-30", "C", "Bridges", "Full", "9x2", "15x2", "late", 0) }

FaultDates == {"2026-01-24", "2025-12-30"}

AppendIOs == {"ok", "mkdir", "open", "write"}

ReadIOs == {"ok", "open", "scan"}

RemoveIOs == {"ok", "open", "scan", "create", "write"}

InitFault == Init /\ backend = "local"

NextFault ==
  \/ \E entry \in FaultEntries, io \in AppendIOs : CallAppend(entry, io)
  \/ \E limit \in Limits, io \in ReadIOs : CallRecent(limit, io)
  \/ \E date \in FaultDates, io \in ReadIOs : CallSearchByDate(date, io)
  \/ \E date \in FaultDates, index \in Indexes, io \in RemoveIOs :
       \E wrote \in (IF io = "write" THEN 0..MaxStored ELSE {0}) :
         CallRemoveByDateIndex(date, index, io, wrote)
  \/ \E io \in ReadIOs : CallLastTrainingDay(io)

SpecFault == InitFault /\ [][NextFault]_vars

(***************************************************************************)
(* The two backends side by side: one caller makes every call on a         *)
(* fileStorage and on a sheetsStorage, both empty at the start.  backend   *)
(* is "both", files is the local store and rows the sheet; ret.out and     *)
(* ret.err hold the pair <<local result, remote result>>.  stored is not   *)
(* used.                                                                   *)
(***************************************************************************)
PairEntries ==
  { WorkoutEntry("2026-01-24", "A", "Pushups", "Half", "20x2", "25x2", "", 0),
    WorkoutEntry("2026-01-24", "B", "Pullups", "Full", "8x2", "10x2", "ok", 0),
    WorkoutEntry("2026-01-25", "", "Squats", "Half", "40 x 2", "50x2", "", 0) }

\* the dates of the entries, a date of another year, a date nothing was
\* logged on and a proper prefix of a date
PairDates == {"2026-01-24", "2026-01-25", "2025-12-30", "2026-01-26", "2026-01-2"}

InitPair ==
  /\ backend = "both"
  /\ files = <<>>
  /\ rows \in {<<>>, <<HeaderRow>>}
  /\ stored = <<>>
  /\ pre = [files |-> files, rows |-> rows, stored |-> stored]
  /\ ret = NoRet
  /\ pc = "idle"
  /\ env = <<>>
  /\ trace = <<>>

PairAppend(entry) ==
  /\ Len(rows) < MaxStored + 1
  /\ LET f == FileAppend(files, entry, "ok")
         s == SheetsAppend(rows, entry, "ok")
     IN /\ files' = f.files
        /\ rows' = s.rows
        /\ ret' = [NoRet EXCEPT !.op = "Append", !.entry = entry,
                                !.err = <<f.err, s.err>>]
  /\ pre' = Snapshot
  /\ UNCHANGED <<backend, stored, procVars>>

PairRecent(limit) ==
  /\ LET f == FileRecent(files, limit, "ok")
         s == SheetsRecent(rows, limit, "ok")
     IN ret' = [NoRet EXCEPT !.op = "Recent", !.limit = limit,
                             !.out = <<f.out, s.out>>, !.err = <<f.err, s.err>>]
  /\ pre' = Snapshot
  /\ UNCHANGED <<backend, files, rows, stored, procVars>>

PairSearchByDate(date) ==
  /\ LET f == FileSearchByDate(files, date, "ok")
         s == SheetsSearchByDate(rows, date, "ok")
     IN ret' = [NoRet EXCEPT !.op = "SearchByDate", !.date = date,
                             !.out = <<f.out, s.out>>, !.err = <<f.err, s.err>>]
  /\ pre' = Snapshot
  /\ UNCHANGED <<backend, files, rows, stored, procVars>>

PairRemoveByDateIndex(date, index) ==
  /\ LET f == FileRemoveByDateIndex(files, date, index, "ok", 0)
         s == SheetsRemoveByDateIndex(rows, date, index, "ok")
     IN /\ files' = f.files
        /\ rows' = s.rows
        /\ ret' = [NoRet EXCEPT !.op = "RemoveByDateIndex", !.date = date,
                                !.index = index, !.err = <<f.err, s.err>>]
  /\ pre' = Snapshot
  /\ UNCHANGED <<backend, stored, procVars>>

PairLastTrainingDay ==
  /\ LET f == FileLastTrainingDay(files, "ok")
         s == SheetsLastTrainingDay(rows, "ok")
     IN ret' = [NoRet EXCEPT !.op = "LastTrainingDay",
                             !.out = <<f.out, s.out>>, !.err = <<f.err, s.err>>]
  /\ pre' = Snapshot
  /\ UNCHANGED <<backend, files, rows, stored, procVars>>

NextPair ==
  \/ \E entry \in PairEntries : PairAppend(entry)
  \/ \E limit \in Limits : PairRecent(limit)
  \/ \E date \in PairDates : PairSearchByDate(date)
  \/ \E date \in PairDates, index \in Indexes : PairRemoveByDateIndex(date, index)
  \/ PairLastTrainingDay

SpecPair == InitPair /\ [][NextPair]_vars

(***************************************************************************)
(* The lookup tables.                                                      *)
(***************************************************************************)
\* Goal map: Exercise -> Level -> Goal
goals ==
  "Pushups" :>
      ("Wall" :> "50x3" @@
       "Incline" :> "40x3" @@
       "Kneeling" :> "30x3" @@
       "Half" :> "25x2" @@
       "Full" :> "20x2" @@
       "Close" :> "20x2" @@
       "Uneven" :> "20x2" @@
       "Half One-Arm" :> "20x2" @@
       "Lever" :> "20x2" @@
       "One-Arm" :> "100x1") @@
  "Squats" :>
      ("Shoulderstand" :> "50x3" @@
       "Jackknife" :> "40x3" @@
       "Supported" :> "30x3" @@
       "Half" :> "50x2" @@
       "Full" :> "30x2" @@
       "Close" :> "20x2" @@
       "Uneven" :> "20x2" @@
       "Half One-Leg" :> "20x2" @@
       "Assisted One-Leg" :> "20x2" @@
       "One-Leg" :> "50x2") @@
  "Pullups" :>
      ("Vertical" :> "40x3" @@
       "Horizontal" :> "30x3" @@
       "Jackknife" :> "20x3" @@
       "Half" :> "15x2" @@
       "Full" :> "10x2" @@
       "Close" :> "10x2" @@
       "Uneven" :> "9x2" @@
       "Half One-Arm" :> "8x2" @@
       "Assisted One-Arm" :> "7x2" @@
       "One-Arm" :> "6x2") @@
  "Leg Raises" :>
      ("Knee Tuck" :> "40x3" @@
       "Knee Raise" :> "35x3" @@
       "Bent Leg" :> "30x3" @@
       "Frog" :> "25x3" @@
       "Flat" :> "20x2" @@
       "Hanging Knee" :> "15x2" @@
       "Hanging Bent" :> "15x2" @@
       "Partial" :> "15x2" @@
       "Hanging" :> "30x2") @@
  "Bridges" :>
      ("Short" :> "50x3" @@
       "Straight" :> "40x3" @@
       "Angled" :> "30x3" @@
       "Head" :> "25x2" @@
       "Half" :> "20x2" @@
       "Full" :> "15x2" @@
       "Wall Down" :> "10x2" @@
       "Wall Up" :> "8x2" @@
       "Closing" :> "6x2" @@
       "Stand-to-Stand" :> "10-30x2") @@
  "Handstand Push-ups" :>
      ("Wall Headstand" :> "2min" @@
       "Crow" :> "1min" @@
       "Wall" :> "2min" @@
       "Half" :> "20x2" @@
       "Full" :> "15x2" @@
       "Close" :> "12x2" @@
       "Uneven" :> "10x2" @@
       "Half One-Arm" :> "8x2" @@
       "Lever" :> "6x2" @@
       "One-Arm" :> "5x2")

\* Ordered list of exercises
exercises ==
  <<"Pushups", "Squats", "Pullups", "Leg Raises", "Bridges", "Handstand Push-ups">>

\* Exercise -> Level -> link of the tutorial
tutorials ==
  "Pushups" :>
      ("Wall" :> "https://www.youtube.com/watch?v=N5C9NUHZ20U" @@
       "Incline" :> "https://www.youtube.com/watch?v=Gv8y_prZBZY" @@
       "Kneeling" :> "https://www.youtube.com/watch?v=NyzxeqY6CR8" @@
       "Half" :> "https://www.youtube.com/watch?v=bGuUODcwnHA" @@
       "Full" :> "https://www.youtube.com/watch?v=1QJICN6udbs" @@
       "Close" :> "https://www.youtube.com/watch?v=3-1vRVuWgBc" @@
       "Uneven" :> "https://www.youtube.com/watch?v=o1abTRdwpUs" @@
       "Half One-Arm" :> "https://www.youtube.com/watch?v=63077t3I4Zc" @@
       "Lever" :> "https://www.youtube.com/watch?v=Hwq5zdb-owA" @@
       "One-Arm" :> "https://www.youtube.com/watch?v=ReKZry7JQEQ") @@
  "Squats" :>
      ("Shoulderstand" :> "https://www.youtube.com/watch?v=a-JNXY_hnSs" @@
       "Jackknife" :> "https://www.youtube.com/watch?v=QhyRsrPOkoY" @@
       "Supported" :> "https://www.youtube.com/watch?v=cLQS5mZmXN0" @@
       "Half" :> "https://www.youtube.com/watch?v=tIHNkW0nGFg" @@
       "Full" :> "https://www.youtube.com/watch?v=S3bNmmxkh_k" @@
       "Close" :> "https://www.youtube.com/watch?v=MiNzsa9MIpI" @@
       "Uneven" :> "https://www.youtube.com/watch?v=UhslmLWprQg" @@
       "Half One-Leg" :> "https://www.youtube.com/watch?v=dZON2MCVdfg" @@
       "Assisted One-Leg" :> "https://www.youtube.com/watch?v=9Mcs9M1HORQ" @@
       "One-Leg" :> "https://www.youtube.com/watch?v=fNCTWGl1Q8A") @@
  "Pullups" :>
      ("Vertical" :> "https://www.youtube.com/watch?v=F8kIJMeqCMs" @@
       "Horizontal" :> "https://www.youtube.com/watch?v=YN0vvoqssfw" @@
       "Jackknife" :> "https://www.youtube.com/watch?v=58ss6OF4fmQ" @@
       "Half" :> "https://www.youtube.com/watch?v=vsRRJGHhKnA" @@
       "Full" :> "https://www.youtube.com/watch?v=9HBukpLkZIM" @@
       "Close" :> "https://www.youtube.com/watch?v=Om_3c0jozTc" @@
       "Uneven" :> "https://www.youtube.com/watch?v=fCHcb4MB1FM" @@
       "Half One-Arm" :> "https://www.youtube.com/watch?v=ve0EIQdRLag" @@
       "Assisted One-Arm" :> "https://www.youtube.com/watch?v=W8DBEewoDmY" @@
       "One-Arm" :> "https://www.youtube.com/watch?v=2tHTY6ZKzkc") @@
  "Leg Raises" :>
      ("Knee Tuck" :> "https://www.youtube.com/watch?v=N8k-SeCkR0s" @@
       "Knee Raise" :> "https://www.youtube.com/watch?v=98ragSP4gC8" @@
       "Bent Leg" :> "https://www.youtube.com/watch?v=qq69_MifXAc" @@
       "Frog" :> "https://www.youtube.com/watch?v=esoUyks3PZM" @@
       "Flat" :> "https://www.youtube.com/watch?v=hav89ezKkPA" @@
       "Hanging Knee" :> "https://www.youtube.com/watch?v=t2MU4Q4V3Xk" @@
       "Hanging Bent" :> "https://www.youtube.com/watch?v=CtFMjDbU0P4" @@
       "Partial" :> "https://www.youtube.com/watch?v=y4cCwSpScPo" @@
       "Hanging" :> "https://www.youtube.com/watch?v=7jI6fDNY_yM") @@
  "Bridges" :>
      ("Short" :> "https://www.youtube.com/watch?v=JQFddjAFWZw" @@
       "Straight" :> "https://www.youtube.com/watch?v=gkTVDJHHIZ0" @@
       "Angled" :> "https://www.youtube.com/watch?v=o9yKAjvUQlM" @@
       "Head" :> "https://www.youtube.com/watch?v=BIq3sAZAekg" @@
       "Half" :> "https://www.youtube.com/watch?v=JXHnTtE9NSk" @@
       "Full" :> "https://www.youtube.com/watch?v=qnU9LoO5Cyg" @@
       "Wall Down" :> "https://www.youtube.com/watch?v=LD1h45ArqcY" @@
       "Wall Up" :> "https://www.youtube.com/watch?v=sc_hsEM7xnA" @@
       "Closing" :> "https://www.youtube.com/watch?v=tGv50Whxouk" @@
       "Stand-to-Stand" :> "https://www.youtube.com/watch?v=wZnixqvk-24")

\* the table inside getLevelsForExercise
levelOrder ==
  "Pushups" :>
      <<"Wall", "Incline", "Kneeling", "Half", "Full",
        "Close", "Uneven", "Half One-Arm", "Lever", "One-Arm">> @@
  "Squats" :>
      <<"Shoulderstand", "Jackknife", "Supported", "Half", "Full",
        "Close", "Uneven", "Half One-Leg", "Assisted One-Leg", "One-Leg">> @@
  "Pullups" :>
      <<"Vertical", "Horizontal", "Jackknife", "Half", "Full",
        "Close", "Uneven", "Half One-Arm", "Assisted One-Arm", "One-Arm">> @@
  "Leg Raises" :>
      <<"Knee Tuck", "Knee Raise", "Bent Leg", "Frog", "Flat",
        "Hanging Knee", "Hanging Bent", "Partial", "Hanging">> @@
  "Bridges" :>
      <<"Short", "Straight", "Angled", "Head", "Half",
        "Full", "Wall Down", "Wall Up", "Closing", "Stand-to-Stand">> @@
  "Handstand Push-ups" :>
      <<"Wall Headstand", "Crow", "Wall", "Half", "Full",
        "Close", "Uneven", "Half One-Arm", "Lever", "One-Arm">>

\* the prefix validateTutorialMappings requires of a link
TutorialPrefix == "https://www.youtube.com/watch?v="

\* resolveGoal answering a missing pair with the empty string
resolveGoalBlank(exercise, level) ==
  IF exercise \in DOMAIN goals /\ level \in DOMAIN goals[exercise]
  THEN goals[exercise][level]
  ELSE ""

resolveGoal(exercise, level) ==
  IF exercise \in DOMAIN goals
  THEN IF level \in DOMAIN goals[exercise] THEN goals[exercise][level] ELSE "-"
  ELSE "-"

\* table: the tutorial table compiled into the program
resolveTutorial(table, exercise, level) ==
  IF exercise \in DOMAIN table
  THEN IF level \in DOMAIN table[exercise] THEN table[exercise][level] ELSE ""
  ELSE ""

\* validateTutorialMappings looking at the exercise keys and the links only
validateExercisesAndLinks(table) ==
  { [kind |-> "unknown exercise key in tutorials", exercise |-> exercise, level |-> ""] :
      exercise \in {x \in DOMAIN table : x \notin DOMAIN goals} }
  \cup
  UNION { { [kind |-> "invalid youtube link", exercise |-> exercise, level |-> level] :
              level \in {l \in DOMAIN table[exercise] :
                           ~HasPrefix(TrimSpace(table[exercise][l]), TutorialPrefix)} } :
          exercise \in {x \in DOMAIN table : x \in DOMAIN goals} }

\* The errors validateTutorialMappings can return for table; the empty set
\* when it returns nil.  Go ranges over a map in no fixed order, so the first
\* faulty exercise or level met can be any of them; within one level the key
\* is tested before the link.
validateTutorialMappings(table) ==
  { [kind |-> "unknown exercise key in tutorials", exercise |-> exercise, level |-> ""] :
      exercise \in {x \in DOMAIN table : x \notin DOMAIN goals} }
  \cup
  UNION { { [kind |-> IF level \notin DOMAIN goals[exercise]
                      THEN "unknown level key in tutorials"
                      ELSE "invalid youtube link",
             exercise |-> exercise, level |-> level] :
              level \in {l \in DOMAIN table[exercise] :
                           \/ l \notin DOMAIN goals[exercise]
                           \/ ~HasPrefix(TrimSpace(table[exercise][l]), TutorialPrefix)} } :
          exercise \in {x \in DOMAIN table : x \in DOMAIN goals} }

\* input: the line read from the terminal
chooseExercise(input) ==
  LET choice == Atoi(TrimSpace(input))
  IN IF ~choice.ok \/ choice.val < 1 \/ choice.val > Len(exercises)
     THEN exercises[1]
     ELSE exercises[choice.val]

\* getLevelsForExercise answering with the levels of Pushups for every exercise
getLevelsOfPushups(exercise) ==
  IF exercise \in DOMAIN levelOrder THEN levelOrder["Pushups"] ELSE <<>>

getLevelsForExercise(exercise) ==
  IF exercise \in DOMAIN levelOrder THEN levelOrder[exercise] ELSE <<>>

chooseLevel(input, exercise) ==
  LET levels == getLevelsForExercise(exercise)
      choice == Atoi(TrimSpace(input))
  IN IF ~choice.ok \/ choice.val < 1 \/ choice.val > Len(levels)
     THEN levels[1]
     ELSE levels[choice.val]

promptOpenTutorial(input) ==
  LET answer == TrimSpace(ToLower(input))
  IN answer = "y" \/ answer = "yes"

\* the days of a month, for time.Parse
DaysIn(year, month) ==
  CASE month \in {4, 6, 9, 11} -> 30
    [] month = 2 ->
         IF year % 4 = 0 /\ (year % 100 # 0 \/ year % 400 = 0) THEN 29 ELSE 28
    [] OTHER -> 31

\* time.Parse(dateLayout, s) returns no error
ValidDate(s) ==
  /\ Len(s) = 10
  /\ AllDigits(SubSeq(s, 1, 4)) /\ SubSeq(s, 5, 5) = "-"
  /\ AllDigits(SubSeq(s, 6, 7)) /\ SubSeq(s, 8, 8) = "-"
  /\ AllDigits(SubSeq(s, 9, 10))
  /\ LET year == ParseNat(SubSeq(s, 1, 4))
         month == ParseNat(SubSeq(s, 6, 7))
         day == ParseNat(SubSeq(s, 9, 10))
     IN month \in 1..12 /\ day >= 1 /\ day <= DaysIn(year, month)

\* time.Now().Format(dateLayout)
Today == "2026-01-26"

(***************************************************************************)
(* The command-line program: one run of main() as a process.               *)
(*   pc     where the run stands: "start", "dispatch", the prompt it waits *)
(*          at ("day", "exercise", "level", "tutorial", "reps", "comment", *)
(*          "remdate", "remchoice") or "exit"                              *)
(*   env    the tutorial table compiled in, the answers read so far, the   *)
(*          diagnostic printed and the exit status (-1 while running)      *)
(*   trace  what the run did, in order; a call of newStorage, of the       *)
(*          storage or of openURL that returned an error is marked         *)
(*          ":error"                                                       *)
(* The command --tutorial is left out: it reads the tables only.           *)
(***************************************************************************)
\* the tutorial tables a build can carry: the shipped one, and others that
\* differ from it in one or two entries
TableNames ==
  {"shipped", "unknown exercise", "unknown level", "bad link", "padded link", "two faults"}

TutorialTable(name) ==
  CASE name = "unknown exercise" ->
         ("Dips" :> ("Full" :> (TutorialPrefix \o "abc"))) @@ tutorials
    [] name = "unknown level" ->
         [tutorials EXCEPT !["Pushups"] = ("Archer" :> (TutorialPrefix \o "abc")) @@ @]
    [] name = "bad link" ->
         [tutorials EXCEPT !["Squats"]["Full"] = "https://youtu.be/S3bNmmxkh_k"]
    [] name = "padded link" ->
         [tutorials EXCEPT !["Squats"]["Full"] = "  " \o @ \o " "]
    [] name = "two faults" ->
         [tutorials EXCEPT !["Pullups"] = ("Archer" :> "") @@ @,
                           !["Bridges"]["Head"] = "www.youtube.com/watch?v=BIq3sAZAekg"]
    [] OTHER -> tutorials

\* what the storage holds when the run starts
Stock ==
  << WorkoutEntry("2026-01-24", "A", "Pushups", "Half", "20x2", "25x2", "", 0),
     WorkoutEntry("2026-01-24", "B", "Pullups", "Full", "8x2", "10x2", "ok", 0) >>

RECURSIVE FilledFiles(_, _)
FilledFiles(fs, entries) ==
  IF entries = <<>> THEN fs
  ELSE FilledFiles(FileAppend(fs, Head(entries), "ok").files, Tail(entries))

RECURSIVE FilledRows(_, _)
FilledRows(sheet, entries) ==
  IF entries = <<>> THEN sheet
  ELSE FilledRows(SheetsAppend(sheet, Head(entries), "ok").rows, Tail(entries))

\* the lines typed at the prompts, and the arguments of the command line
DayInputs == {"A\n", " b \n"}

ExerciseInputs == {"1\n", "3\n", " 6 \n", "7\n", "x\n"}

LevelInputs == {"5\n", "10\n", "0\n"}

TutorialInputs == {"y\n", " YES \n", "\n", "no\n"}

RepsInputs == {"8x2\n"}

CommentInputs == {"\n", "felt strong \n"}

DateInputs == {"2026-01-24\n", " 2025-12-30\n", "2026-01-2\n", "2026-02-30\n"}

ChoiceInputs == {"0\n", "1\n", " 2 \n", "3\n", "-1\n", "\n"}

OpenArgs ==
  {<<"open">>, <<"open", "workout-template">>, <<"open", "notes">>, <<"--template">>, <<"-yt">>}

SearchArgs ==
  {<<"-s">>, <<"-s", "2026-01-24">>, <<"-s", "2026-01-2">>, <<"-s", "2025-12-30">>}

\* the failing step of a storage call: opening the file, fetching the range
Fail == IF backend = "local" THEN "open" ELSE "read"

IOs == {"ok", Fail}

Configs == {"ok", "err"}

MainEnv(table) ==
  [table |-> table, date |-> "", found |-> 0, day |-> "", exercise |-> "",
   level |-> "", tutorialURL |-> "", repsSets |-> "", comment |-> "",
   diag |-> "", code |-> -1]

InitMain ==
  /\ backend \in {"local", "sheets"}
  /\ \E n \in 0..Len(Stock) : stored = SubSeq(Stock, 1, n)
  /\ files = (IF backend = "local" THEN FilledFiles(<<>>, stored) ELSE <<>>)
  /\ rows \in (IF backend = "local" THEN {<<>>}
               ELSE {FilledRows(<<>>, stored), FilledRows(<<HeaderRow>>, stored)})
  /\ pre = [files |-> files, rows |-> rows, stored |-> stored]
  /\ ret = NoRet
  /\ pc = "start"
  /\ \E table \in TableNames : env = MainEnv(table)
  /\ trace = <<>>

\* the run goes on to the prompt next, having done events
Goes(next, events, newEnv) ==
  /\ pc' = next
  /\ trace' = trace \o events
  /\ env' = newEnv

\* the run ends with status code, having done events and printed diag
Exits(code, events, diag, newEnv) ==
  /\ pc' = "exit"
  /\ trace' = trace \o events \o <<"exit">>
  /\ env' = [newEnv EXCEPT !.code = code, !.diag = diag]

\* main, lines 196-199: the tutorial table is validated before anything else
Validate ==
  /\ pc = "start"
  /\ LET errs == validateTutorialMappings(TutorialTable(env.table))
     IN IF errs = {}
        THEN Goes("dispatch", <<"validateTutorialMappings">>, env)
        ELSE \E err \in errs :
               Exits(1, <<"validateTutorialMappings", "stderr">>,
                     "Tutorial link mapping error: " \o err.kind, env)
  /\ UNCHANGED storeVars

\* cali -h
RunHelp ==
  /\ pc = "dispatch"
  /\ Exits(0, <<"showHelp">>, "", env)
  /\ UNCHANGED storeVars

\* cali open <name>, cali --template, cali -yt; opened: cmd.Start() succeeds
RunOpen(args, opened) ==
  /\ pc = "dispatch"
  /\ CASE args[1] = "open" /\ Len(args) < 2 ->
            Exits(1, <<>>, "Usage: cali open <workout-template>", env)
       [] args[1] = "open" /\ Len(args) >= 2 /\ args[2] # "workout-template" ->
            Exits(1, <<"stderr">>, "Error opening resource", env)
       [] OTHER ->
            IF opened THEN Exits(0, <<"openURL">>, "", env)
            ELSE Exits(1, <<"openURL:error", "stderr">>,
                       IF args[1] = "-yt" THEN "Error opening playlists"
                       ELSE "Error opening resource", env)
  /\ UNCHANGED storeVars

\* cali -p: newStorage, then showHistory
RunHistory(cfg, io) ==
  /\ pc = "dispatch"
  /\ IF cfg = "err"
     THEN /\ Exits(1, <<"newStorage:error", "stderr">>, "Error configuring storage", env)
          /\ UNCHANGED storeVars
     ELSE /\ StoreRecent(10, io)
          /\ IF ret'.err # "none"
             THEN Exits(1, <<"newStorage", "Recent:error", "stderr">>,
                        "Error reading workout history", env)
             ELSE Exits(0, <<"newStorage", "Recent">>, "", env)

\* cali -s <date>: newStorage, then searchByDate
RunSearch(args, cfg, io) ==
  /\ pc = "dispatch"
  /\ CASE Len(args) < 2 ->
            /\ Exits(1, <<>>, "Usage: cali -s <date>", env)
            /\ UNCHANGED storeVars
       [] Len(args) >= 2 /\ cfg = "err" ->
            /\ Exits(1, <<"newStorage:error", "stderr">>, "Error configuring storage", env)
            /\ UNCHANGED storeVars
       [] Len(args) >= 2 /\ cfg # "err" /\ ~ValidDate(args[2]) ->
            /\ Exits(1, <<"newStorage">>, "Invalid date format", env)
            /\ UNCHANGED storeVars
       [] OTHER ->
            /\ StoreSearchByDate(args[2], io)
            /\ IF ret'.err # "none"
               THEN Exits(1, <<"newStorage", "SearchByDate:error", "stderr">>,
                          "Error searching workouts", env)
               ELSE Exits(0, <<"newStorage", "SearchByDate">>, "", env)

\* cali -r: newStorage, then removeEntry up to its first prompt
RemoveStart(cfg) ==
  /\ pc = "dispatch"
  /\ IF cfg = "err"
     THEN Exits(1, <<"newStorage:error", "stderr">>, "Error configuring storage", env)
     ELSE Goes("remdate", <<"newStorage", "prompt:date">>, env)
  /\ UNCHANGED storeVars

\* removeEntry from the date read to the second prompt
RemoveDate(input, io) ==
  /\ pc = "remdate"
  /\ LET dateStr == TrimSpace(input)
     IN IF ~ValidDate(dateStr)
        THEN /\ Exits(1, <<>>, "Invalid date format", env)
             /\ UNCHANGED storeVars
        ELSE /\ StoreSearchByDate(dateStr, io)
             /\ CASE ret'.err # "none" ->
                       Exits(1, <<"SearchByDate:error", "stderr">>, "Error searching workouts", env)
                  [] ret'.err = "none" /\ Len(ret'.out) = 0 ->
                       Exits(0, <<"SearchByDate">>, "", env)
                  [] OTHER ->
                       Goes("remchoice", <<"SearchByDate", "prompt:number">>,
                            [env EXCEPT !.date = dateStr, !.found = Len(ret'.out)])

\* removeEntry from the number read to its end
RemoveChoice(input, io) ==
  /\ pc = "remchoice"
  /\ LET choice == Atoi(TrimSpace(input))
     IN CASE ~choice.ok \/ choice.val < 0 \/ choice.val > env.found ->
               /\ Exits(0, <<>>, "", env)
               /\ UNCHANGED storeVars
          [] choice.ok /\ choice.val = 0 ->
               /\ Exits(0, <<>>, "", env)
               /\ UNCHANGED storeVars
          [] OTHER ->
               /\ StoreRemoveByDateIndex(env.date, choice.val - 1, io, 0)
               /\ IF ret'.err # "none"
                  THEN Exits(1, <<"RemoveByDateIndex:error", "stderr">>, "Error removing entry", env)
                  ELSE Exits(0, <<"RemoveByDateIndex">>, "", env)

\* cali: main from newStorage (line 265) to the prompt for the day; what
\* LastTrainingDay returns decides only whether a line is printed
LogStart(cfg, io) ==
  /\ pc = "dispatch"
  /\ IF cfg = "err"
     THEN /\ Exits(1, <<"newStorage:error", "stderr">>, "Error configuring storage", env)
          /\ UNCHANGED storeVars
     ELSE /\ StoreLastTrainingDay(io)
          /\ Goes("day",
                  <<"newStorage",
                    IF ret'.err # "none" THEN "LastTrainingDay:error" ELSE "LastTrainingDay",
                    "prompt:Day">>, env)

\* main, lines 280-282, and chooseExercise up to its prompt
LogDay(input) ==
  /\ pc = "day"
  /\ Goes("exercise", <<"prompt:Exercise">>, [env EXCEPT !.day = TrimSpace(input)])
  /\ UNCHANGED storeVars

\* the rest of chooseExercise, and chooseLevel up to its prompt
LogExercise(input) ==
  /\ pc = "exercise"
  /\ Goes("level", <<"prompt:Level">>, [env EXCEPT !.exercise = chooseExercise(input)])
  /\ UNCHANGED storeVars

\* the rest of chooseLevel and main, lines 286-287 or 296: the prompt shown
\* next asks about the tutorial when the pair has one
LogLevel(input) ==
  /\ pc = "level"
  /\ LET level == chooseLevel(input, env.exercise)
         tutorialURL == resolveTutorial(TutorialTable(env.table), env.exercise, level)
         newEnv == [env EXCEPT !.level = level, !.tutorialURL = tutorialURL]
     IN IF tutorialURL # ""
        THEN Goes("tutorial", <<"prompt:Tutorial">>, newEnv)
        ELSE Goes("reps", <<"prompt:RepsSets">>, newEnv)
  /\ UNCHANGED storeVars

\* LogTutorial going on to log after the tutorial has opened
LogTutorialGoesOn(input, opened) ==
  /\ pc = "tutorial"
  /\ CASE promptOpenTutorial(input) /\ opened ->
            Goes("reps", <<"openURL", "prompt:RepsSets">>, env)
       [] promptOpenTutorial(input) /\ ~opened ->
            Goes("reps", <<"openURL:error", "stderr", "prompt:RepsSets">>, env)
       [] OTHER -> Goes("reps", <<"prompt:RepsSets">>, env)
  /\ UNCHANGED storeVars

\* main, lines 287-296; opened: openURL returns no error
LogTutorial(input, opened) ==
  /\ pc = "tutorial"
  /\ CASE promptOpenTutorial(input) /\ opened ->
            Exits(0, <<"openURL">>, "", env)
       [] promptOpenTutorial(input) /\ ~opened ->
            Goes("reps", <<"openURL:error", "stderr", "prompt:RepsSets">>, env)
       [] OTHER -> Goes("reps", <<"prompt:RepsSets">>, env)
  /\ UNCHANGED storeVars

\* main, lines 297-300
LogReps(input) ==
  /\ pc = "reps"
  /\ Goes("comment", <<"prompt:Comment">>, [env EXCEPT !.repsSets = TrimSpace(input)])
  /\ UNCHANGED storeVars

\* main, lines 301-323
LogComment(input, io) ==
  /\ pc = "comment"
  /\ LET comment == TrimSpace(input)
         goal == resolveGoal(env.exercise, env.level)
         date == Today
         entry == WorkoutEntry(date, env.day, env.exercise, env.level, env.repsSets,
                               goal, comment, 0)
         newEnv == [env EXCEPT !.comment = comment]
     IN /\ StoreAppend(entry, io)
        /\ IF ret'.err # "none"
           THEN Exits(1, <<"Append:error", "stderr">>, "Error writing workout", newEnv)
           ELSE Exits(0, <<"Append">>, "", newEnv)

NextMain ==
  \/ Validate
  \/ RunHelp
  \/ \E args \in OpenArgs, opened \in BOOLEAN : RunOpen(args, opened)
  \/ \E cfg \in Configs, io \in IOs : RunHistory(cfg, io)
  \/ \E args \in SearchArgs, cfg \in Configs, io \in IOs : RunSearch(args, cfg, io)
  \/ \E cfg \in Configs : RemoveStart(cfg)
  \/ \E input \in DateInputs, io \in IOs : RemoveDate(input, io)
  \/ \E input \in ChoiceInputs, io \in IOs : RemoveChoice(input, io)
  \/ \E cfg \in Configs, io \in IOs : LogStart(cfg, io)
  \/ \E input \in DayInputs : LogDay(input)
  \/ \E input \in ExerciseInputs : LogExercise(input)
  \/ \E input \in LevelInputs : LogLevel(input)
  \/ \E input \in TutorialInputs, opened \in BOOLEAN : LogTutorial(input, opened)
  \/ \E input \in RepsInputs : LogReps(input)
  \/ \E input \in CommentInputs, io \in IOs : LogComment(input, io)

SpecMain == InitMain /\ [][NextMain]_vars

(***************************************************************************)
(* The logging flow with every kind of answer at the two menus: each       *)
(* number from below the first item to past the longest menu, signed,      *)
(* padded and zero-padded numbers, text, and nothing.  The tutorial is     *)
(* declined and the storage is local, empty and does not fail.             *)
(***************************************************************************)
\* the largest number typed at a menu
MaxChoice == 11

MenuInputs ==
  {Itoa(n) \o "\n" : n \in (0 - 1)..MaxChoice}
    \cup {"+2\n", " 4 \n", "09\n", "2.0\n", "x\n", "\n", ""}

InitMenu ==
  /\ backend = "local"
  /\ files = <<>> /\ rows = <<>> /\ stored = <<>>
  /\ pre = [files |-> files, rows |-> rows, stored |-> stored]
  /\ ret = NoRet
  /\ pc = "start"
  /\ env = MainEnv("shipped")
  /\ trace = <<>>

NextMenu ==
  \/ Validate
  \/ LogStart("ok", "ok")
  \/ LogDay("A\n")
  \/ \E input \in MenuInputs : LogExercise(input)
  \/ \E input \in MenuInputs : LogLevel(input)
  \/ LogTutorial("n\n", FALSE)
  \/ LogReps("8x2\n")
  \/ LogComment("\n", "ok")

SpecMenu == InitMenu /\ [][NextMenu]_vars

(***************************************************************************)
(* One entry through the line form: written by Append, read back the way   *)
(* Recent, SearchByDate and LastTrainingDay read.  env holds the entry,    *)
(* ret what the read loop makes of its text.                               *)
(***************************************************************************)
LineDates == {"2026-01-24", " 2026-01-24", ""}

LineDays == {"A", "A|B", "A\nB", " A "}

LineExercises == {"Pushups", "Leg Raises"}

LineReps == {"20x2", ""}

LineComments == {"", "ok", "ok ", "x|y", "a\tb"}

\* the loop of the read paths: what parseLogLine makes of every scanned line
ReadLines(lines) == [k \in 1..Len(lines) |-> parseLogLine(TrimSpace(lines[k]))]

InitLine ==
  /\ backend = "local" /\ files = <<>> /\ rows = <<>> /\ stored = <<>>
  /\ pre = [files |-> files, rows |-> rows, stored |-> stored]
  /\ ret = NoRet
  /\ pc = "entry"
  /\ \E date \in LineDates, day \in LineDays, exercise \in LineExercises,
        repsSets \in LineReps, comment \in LineComments :
       env = WorkoutEntry(date, day, exercise, "Half", repsSets, "25x2", comment, 0)
  /\ trace = <<>>

\* the text of the entry is written, scanned and parsed
ReadBackLine ==
  /\ pc = "entry"
  /\ pc' = "read"
  /\ ret' = [NoRet EXCEPT !.op = "parseLogLine", !.entry = env,
                          !.out = ReadLines(ScanLines(WrittenLines(serializeLogEntry(env))))]
  /\ UNCHANGED <<backend, files, rows, stored, pre, env, trace>>

NextLine == ReadBackLine

SpecLine == InitLine /\ [][NextLine]_vars

(***************************************************************************)
(* The local read operations over a year file of any content: lines that   *)
(* Append wrote, and lines it never writes (cut short, blank, indented).   *)
(***************************************************************************)
\* most lines of the year file
MaxLines == 3

FileLines ==
  { "2026-01-24|A|Pushups|Half|20x2|25x2|",
    "  2026-01-25|B|Pullups|Full|8x2|10x2|ok ",
    "2026-01-24|A|Pushups|Half|20x2|25x2",
    "2026-01-25",
    "" }

FileDates == {"2026-01-24", "2026-01-25", "2026-01-2"}

InitFile ==
  /\ backend = "local"
  /\ \E n \in 0..MaxLines : \E lines \in [1..n -> FileLines] :
       files = (LogFileD(NowYear) :> lines)
  /\ rows = <<>> /\ stored = <<>>
  /\ pre = [files |-> files, rows |-> rows, stored |-> stored]
  /\ ret = NoRet
  /\ pc = "idle" /\ env = <<>> /\ trace = <<>>

NextFile ==
  \/ \E limit \in Limits : CallRecent(limit, "ok")
  \/ \E date \in FileDates : CallSearchByDate(date, "ok")
  \/ CallLastTrainingDay("ok")

SpecFile == InitFile /\ [][NextFile]_vars

(***************************************************************************)
(* Search and removal on the local backend over a year file of any         *)
(* content.                                                                *)
(***************************************************************************)
\* two lines as Append writes them, one of them indented, a line that is a
\* date and nothing else, and a line of another day
EditedLines ==
  { "2026-01-24|A|Pushups|Half|20x2|25x2|",
    " 2026-01-24|B|Pullups|Full|8x2|10x2|ok",
    "2026-01-24",
    "2026-01-25|C|Squats|Half|40x2|50x2|x" }

EditedDates == {"2026-01-24", "2026-01-25"}

InitEdited ==
  /\ backend = "local"
  /\ \E n \in 0..MaxLines : \E lines \in [1..n -> EditedLines] :
       files = (LogFileD(NowYear) :> lines)
  /\ rows = <<>> /\ stored = <<>>
  /\ pre = [files |-> files, rows |-> rows, stored |-> stored]
  /\ ret = NoRet
  /\ pc = "idle" /\ env = <<>> /\ trace = <<>>

NextEdited ==
  \/ \E date \in EditedDates : CallSearchByDate(date, "ok")
  \/ \E date \in EditedDates, index \in (0 - 1)..MaxLines :
       CallRemoveByDateIndex(date, index, "ok", 0)

SpecEdited == InitEdited /\ [][NextEdited]_vars

(***************************************************************************)
(* The local backend with dates whose first four characters are a year, a  *)
(* zero-padded number, a signed number, and no number.                     *)
(***************************************************************************)
YearDates == {"2026-01-24", "0999-01-24", "+202-01-24", "-001-01-24", "next week"}

YearEntries ==
  {WorkoutEntry(date, "A", "Pushups", "Half", "20x2", "25x2", "", 0) : date \in YearDates}

NextYear ==
  \/ \E entry \in YearEntries : CallAppend(entry, "ok")
  \/ \E date \in YearDates : CallSearchByDate(date, "ok")
  \/ \E date \in YearDates, index \in 0..1 : CallRemoveByDateIndex(date, index, "ok", 0)

SpecYear == InitFault /\ [][NextYear]_vars

(***************************************************************************)
(* The remote backend over a sheet of any content: rows that Append wrote, *)
(* header rows and blank rows, in any order.                               *)
(***************************************************************************)
\* most rows of the sheet at the start
MaxRows == 3

SheetRows ==
  { HeaderRow,
    <<>>,
    <<"", "A", "Pushups">>,
    <<"2026-01-24", "A", "Pushups", "Half", "20x2", "25x2", "">>,
    <<"2026-01-24", "B", "Pullups", "Full", "8x2", "10x2", "ok">> }

SheetDates == {"2026-01-24", "Date"}

InitSheet ==
  /\ backend = "sheets"
  /\ \E n \in 0..MaxRows : rows \in [1..n -> SheetRows]
  /\ files = <<>> /\ stored = <<>>
  /\ pre = [files |-> files, rows |-> rows, stored |-> stored]
  /\ ret = NoRet
  /\ pc = "idle" /\ env = <<>> /\ trace = <<>>

NextSheet ==
  \/ \E limit \in {1, MaxRows} : CallRecent(limit, "ok")
  \/ \E date \in SheetDates : CallSearchByDate(date, "ok")
  \/ \E date \in SheetDates, index \in (0 - 1)..(MaxRows - 2) :
       CallRemoveByDateIndex(date, index, "ok", 0)

SpecSheet == InitSheet /\ [][NextSheet]_vars

(***************************************************************************)
(* Two invocations of the program on one log directory, not coordinated:   *)
(* one removes, the other appends, and their system calls interleave.      *)
(* env holds both invocations:                                             *)
(*   rpc, apc   where the remover and the appender stand                   *)
(*   date, index, entry   their arguments                                  *)
(*   allLines   the lines the remover scanned                              *)
(*   todo, off  the lines the remover has still to write, and the byte     *)
(*              offset of its file handle                                  *)
(*   rerr, aerr what the two calls returned                                *)
(*   wroteAt    where the remover stood when the appender wrote            *)
(* pre is the file system as the remover scanned it.                       *)
(***************************************************************************)
RECURSIVE FileText(_)
\* the bytes of a file of complete lines
FileText(lines) ==
  IF lines = <<>> THEN "" ELSE Head(lines) \o "\n" \o FileText(Tail(lines))

\* os.OpenFile with O_CREATE: a file that is absent is created empty
OpenCreate(fs, name) ==
  IF name \in DOMAIN fs THEN fs ELSE WriteFile(fs, name, <<>>)

\* Create leaving the content of an existing file in place
CreateKeeps(fs, name) ==
  IF name \in DOMAIN fs THEN fs ELSE WriteFile(fs, name, <<>>)

\* os.Create: the file exists and is empty
Create(fs, name) == WriteFile(fs, name, <<>>)

\* a write of data through a handle at byte offset off (no O_APPEND): the
\* bytes from off on are overwritten, the file grows as needed
WriteAt(lines, off, data) ==
  LET text == FileText(lines)
  IN WrittenLines(SubSeq(text, 1, off) \o data
                  \o SubSeq(text, off + Len(data) + 1, Len(text)))

RaceLines ==
  { "2026-01-24|A|Pushups|Half|20x2|25x2|",
    "2026-01-25|B|Pullups|Full|8x2|10x2|ok" }

RaceEntries ==
  { WorkoutEntry("2026-01-26", "C", "Squats", "Half", "40x2", "50x2", "", 0),
    WorkoutEntry("2026-01-26", "", "", "", "", "", "", 0) }

RaceDates == {"2026-01-24", "2026-01-25"}

InitRace ==
  /\ backend = "local"
  /\ \E n \in 0..MaxStored : \E lines \in [1..n -> RaceLines] :
       files \in {<<>>, LogFileD(NowYear) :> lines}
  /\ rows = <<>> /\ stored = <<>>
  /\ pre = [files |-> files, rows |-> rows, stored |-> stored]
  /\ ret = NoRet
  /\ pc = "idle" /\ trace = <<>>
  /\ \E date \in RaceDates, index \in 0..(MaxStored - 1), entry \in RaceEntries :
       env = [rpc |-> "start", apc |-> "start", date |-> date, index |-> index,
              entry |-> entry, allLines |-> <<>>, todo |-> <<>>, off |-> 0,
              rerr |-> "none", aerr |-> "none", wroteAt |-> ""]

RemoveReturns(err) ==
  ret' = [NoRet EXCEPT !.op = "RemoveByDateIndex", !.date = env.date,
                       !.index = env.index, !.err = err]

\* fileStorage.RemoveByDateIndex, lines 793-820: the file is opened and read
RaceScan ==
  /\ env.rpc = "start"
  /\ LET logFile == LogFileS(SubSeq(env.date, 1, 4))
     IN IF logFile \notin DOMAIN files
        THEN /\ env' = [env EXCEPT !.rpc = "done", !.rerr = "no workout log found"]
             /\ RemoveReturns("no workout log found")
        ELSE /\ env' = [env EXCEPT !.rpc = "scanned",
                                   !.allLines = ScanLines(files[logFile])]
             /\ ret' = ret
  /\ pre' = Snapshot
  /\ UNCHANGED <<backend, files, rows, stored, pc, trace>>

\* lines 822-833: the index is checked and the file is created anew
RaceCreate ==
  /\ env.rpc = "scanned"
  /\ LET logFile == LogFileS(SubSeq(env.date, 1, 4))
         matchingLineIdx == MatchingLineIdx(env.allLines, env.date)
         toRemove == matchingLineIdx[env.index + 1]
         remaining == RemoveAt(env.allLines, toRemove)
     IN IF env.index < 0 \/ env.index >= Len(matchingLineIdx)
        THEN /\ env' = [env EXCEPT !.rpc = "done", !.rerr = "invalid remove index"]
             /\ RemoveReturns("invalid remove index")
             /\ files' = files
        ELSE /\ files' = Create(files, logFile)
             /\ env' = [env EXCEPT !.rpc = IF remaining = <<>> THEN "done" ELSE "created",
                                   !.todo = remaining, !.off = 0]
             /\ IF remaining = <<>> THEN RemoveReturns("none") ELSE ret' = ret
  /\ UNCHANGED <<backend, rows, stored, pre, pc, trace>>

\* lines 835-840: one pass of the rewrite loop
RaceWrite ==
  /\ env.rpc = "created"
  /\ LET logFile == LogFileS(SubSeq(env.date, 1, 4))
         data == Head(env.todo) \o "\n"
     IN /\ files' = WriteFile(files, logFile, WriteAt(files[logFile], env.off, data))
        /\ env' = [env EXCEPT !.rpc = IF Tail(env.todo) = <<>> THEN "done" ELSE "created",
                              !.todo = Tail(env.todo), !.off = env.off + Len(data)]
        /\ IF Tail(env.todo) = <<>> THEN RemoveReturns("none") ELSE ret' = ret
  /\ UNCHANGED <<backend, rows, stored, pre, pc, trace>>

\* fileStorage.Append, lines 712-720: the file is opened, created if absent
RaceAppendOpen ==
  /\ env.apc = "start"
  /\ files' = OpenCreate(files, LogFileD(yearFromDate(env.entry.Date)))
  /\ env' = [env EXCEPT !.apc = "opened"]
  /\ UNCHANGED <<backend, rows, stored, pre, ret, pc, trace>>

\* lines 722-726: the line is written at the end of the file (O_APPEND)
RaceAppendWrite ==
  /\ env.apc = "opened"
  /\ LET logFile == LogFileD(yearFromDate(env.entry.Date))
     IN files' = WriteFile(files, logFile,
                           files[logFile] \o WrittenLines(serializeLogEntry(env.entry)))
  /\ env' = [env EXCEPT !.apc = "done", !.wroteAt = env.rpc]
  /\ UNCHANGED <<backend, rows, stored, pre, ret, pc, trace>>

NextRace ==
  \/ RaceScan
  \/ RaceCreate
  \/ RaceWrite
  \/ RaceAppendOpen
  \/ RaceAppendWrite

SpecRace == InitRace /\ [][NextRace]_vars

(***************************************************************************)
(* One removal made twice: on a store that Append has filled, the caller   *)
(* calls RemoveByDateIndex and, when it succeeds, calls it again with the  *)
(* same date and index.  env holds the arguments and the store before the  *)
(* first call (orig).                                                      *)
(***************************************************************************)
\* most entries in the store at the start
MaxTwice == 3

TwiceEntries ==
  { WorkoutEntry("2026-01-24", "A", "Pushups", "Half", "20x2", "25x2", "", 0),
    WorkoutEntry("2026-01-24", "B", "Pullups", "Full", "8x2", "10x2", "ok", 0),
    WorkoutEntry("2026-01-25", "C", "Squats", "Half", "40x2", "50x2", "x", 0) }

TwiceDates == {"2026-01-24", "2026-01-25", "2026-01-2"}

RECURSIVE FileAppendAll(_, _)
\* the file system after every entry has been appended, in order
FileAppendAll(fs, entries) ==
  IF entries = <<>> THEN fs
  ELSE FileAppendAll(FileAppend(fs, Head(entries), "ok").files, Tail(entries))

RECURSIVE SheetsAppendAll(_, _)
SheetsAppendAll(sheet, entries) ==
  IF entries = <<>> THEN sheet
  ELSE SheetsAppendAll(SheetsAppend(sheet, Head(entries), "ok").rows, Tail(entries))

InitTwice ==
  /\ backend \in {"local", "sheets"}
  /\ \E n \in 0..MaxTwice : stored \in [1..n -> TwiceEntries]
  /\ files = (IF backend = "local" THEN FileAppendAll(<<>>, stored) ELSE <<>>)
  /\ rows = (IF backend = "local" THEN <<>> ELSE SheetsAppendAll(<<HeaderRow>>, stored))
  /\ pre = [files |-> files, rows |-> rows, stored |-> stored]
  /\ ret = NoRet
  /\ pc = "idle" /\ trace = <<>>
  /\ \E date \in TwiceDates, index \in 0..(MaxTwice - 1) :
       env = [date |-> date, index |-> index, orig |-> pre]

TwiceFirst ==
  /\ pc = "idle"
  /\ StoreRemoveByDateIndex(env.date, env.index, "ok", 0)
  /\ pc' = (IF ret'.err = "none" THEN "once" ELSE "failed")
  /\ UNCHANGED <<env, trace>>

TwiceSecond ==
  /\ pc = "once"
  /\ StoreRemoveByDateIndex(env.date, env.index, "ok", 0)
  /\ pc' = "twice"
  /\ UNCHANGED <<env, trace>>

NextTwice == TwiceFirst \/ TwiceSecond

SpecTwice == InitTwice /\ [][NextTwice]_vars

(***************************************************************************)
(* Vocabulary of the properties.                                           *)
(***************************************************************************)
\* a sequence of entries without the backend-internal RowIndex
Bare(entries) == [k \in 1..Len(entries) |-> [entries[k] EXCEPT !.RowIndex = 0]]

RECURSIVE IsSubseq(_, _)
\* a occurs in b, in the order of a, not necessarily side by side
IsSubseq(a, b) ==
  IF a = <<>> THEN TRUE
  ELSE IF b = <<>> THEN FALSE
  ELSE IF Head(a) = Head(b) THEN IsSubseq(Tail(a), Tail(b))
  ELSE IsSubseq(a, Tail(b))

\* a text that survives the line form: no delimiter, no line break, no
\* whitespace at its ends
PlainText(s) ==
  /\ Positions(s, "|") = {} /\ Positions(s, "\n") = {} /\ Positions(s, "\r") = {}
  /\ TrimSpace(s) = s

\* a date as time.Now().Format("2006-01-02") writes it, of a year from 1000 on
PlainDate(d) ==
  /\ Len(d) = 10
  /\ AllDigits(SubSeq(d, 1, 4)) /\ SubSeq(d, 1, 1) # "0"
  /\ SubSeq(d, 5, 5) = "-" /\ AllDigits(SubSeq(d, 6, 7))
  /\ SubSeq(d, 8, 8) = "-" /\ AllDigits(SubSeq(d, 9, 10))

PlainEntry(e) ==
  /\ PlainDate(e.Date) /\ PlainText(e.Day) /\ PlainText(e.Exercise)
  /\ PlainText(e.Level) /\ PlainText(e.RepsSets) /\ PlainText(e.Goal)
  /\ PlainText(e.Comment)

\* the stored entries of the period that Recent and LastTrainingDay cover:
\* the current year's file, or the whole sheet
CurrentPeriod(st) ==
  IF backend = "local" THEN SelectSeq(st, LAMBDA e : yearFromDate(e.Date) = NowYear)
  ELSE st

\* SearchByDate on the storage of a snapshot
SearchIn(snap, date) ==
  IF backend = "local" THEN FileSearchByDate(snap.files, date, "ok")
  ELSE SheetsSearchByDate(snap.rows, date, "ok")

Last(seq) == seq[Len(seq)]

\* an entry as the backend reads it back from its stored text
ReadBack(e) ==
  IF backend = "local" THEN parseLogLine(TrimSpace(TextOf(e))).entry ELSE e

ReadBackAll(st) == [k \in 1..Len(st) |-> ReadBack(st[k])]

Min(a, b) == IF a <= b THEN a ELSE b

C3_InvalidIndexError ==
  LET m == SearchIn(pre, ret.date)
  IN (ret.op = "RemoveByDateIndex" /\ m.err = "none"
        /\ (ret.index < 0 \/ ret.index >= Len(m.out)))
       => /\ ret.err = "invalid remove index"
          /\ files = pre.files /\ rows = pre.rows

\* C3, amended: such a call returns an error and leaves the storage as it
\* was; the error is the invalid-index error, except on the local backend
\* when the file of the date's year does not exist, where it is the
\* no-workout-log error.
C3_InvalidIndexFails ==
  LET m == SearchIn(pre, ret.date)
      noFile == backend = "local" /\ LogFileS(SubSeq(ret.date, 1, 4)) \notin DOMAIN pre.files
  IN (ret.op = "RemoveByDateIndex" /\ m.err = "none"
        /\ (ret.index < 0 \/ ret.index >= Len(m.out)))
       => /\ ret.err = (IF noFile THEN "no workout log found" ELSE "invalid remove index")
          /\ files = pre.files /\ rows = pre.rows

\* the index one past the last match was refused on a local file that holds
\* matches
C3_Witness ==
  /\ backend = "local" /\ ret.op = "RemoveByDateIndex"
  /\ ret.err = "invalid remove index"
  /\ Len(SearchIn(pre, ret.date).out) >= 1
  /\ ret.index = Len(SearchIn(pre, ret.date).out)
  /\ files = pre.files /\ stored # <<>>

\* C4: Recent(limit) returns at most limit entries: the last limit entries of
\* the scanned storage in their stored order when it holds more than limit,
\* all of them otherwise.
C4_RecentIsLatest ==
  ret.op = "Recent"
    => LET all == ReadBackAll(CurrentPeriod(stored))
           n == Len(all)
       IN /\ ret.err = "none"
          /\ Len(ret.out) <= ret.limit
          /\ Bare(ret.out) = SubSeq(all, n - Min(ret.limit, n) + 1, n)

\* Recent(1) on a local year file of two different entries returned the newer
C4_Witness ==
  /\ backend = "local" /\ ret.op = "Recent" /\ ret.limit = 1
  /\ Len(CurrentPeriod(stored)) = 2 /\ stored[1] # stored[2]
  /\ Bare(ret.out) = <<ReadBack(stored[2])>>

\* C5, as claimed: SearchByDate(date) returns without error exactly the
\* stored entries whose date field equals date, in storage order (none when
\* nothing matches).
C5_SearchIsExactDate ==
  (ret.op = "SearchByDate" /\ Len(ret.date) >= 4)
    => /\ ret.err = "none"
       /\ Bare(ret.out) = SelectSeq(ReadBackAll(stored), LAMBDA e : e.Date = ret.date)

\* C6, as claimed: LastTrainingDay returns the Day and Date of the newest
\* stored entry of the current period, and two empty strings when there is
\* none.
C6_LastIsNewest ==
  ret.op = "LastTrainingDay"
    => LET cur == CurrentPeriod(stored)
       IN /\ ret.err = "none"
          /\ ret.out = (IF cur = <<>> THEN <<"", "">>
                        ELSE <<Last(cur).Day, Last(cur).Date>>)

\* C6, amended: the same when the newest stored entry of the current period
\* has a YYYY-MM-DD date and fields without delimiter, line break or
\* whitespace at their ends.
C6_LastIsNewestPlain ==
  ret.op = "LastTrainingDay"
    => LET cur == CurrentPeriod(stored)
       IN /\ ret.err = "none"
          /\ cur = <<>> => ret.out = <<"", "">>
          /\ (cur # <<>> /\ PlainEntry(Last(cur)))
               => ret.out = <<Last(cur).Day, Last(cur).Date>>

\* on the local backend the entry appended last went to last year's file, and
\* LastTrainingDay returned the one before it
C6_Witness ==
  /\ backend = "local" /\ ret.op = "LastTrainingDay"
  /\ Len(stored) = 2 /\ yearFromDate(stored[2].Date) # NowYear
  /\ ret.out = <<stored[1].Day, stored[1].Date>>

(***************************************************************************)
(* The lookup tables and the start of main (specification SpecMain).       *)
(***************************************************************************)
\* names of exercises and levels, inside and outside the Goal Table
ExerciseNames == (DOMAIN goals) \cup {"Dips", "pushups", ""}

LevelNames == UNION {DOMAIN goals[x] : x \in DOMAIN goals} \cup {"Archer", "full", ""}

\* the Goal Table as the set of its rows
GoalRows ==
  UNION { { <<x, l, goals[x][l]>> : l \in DOMAIN goals[x] } : x \in DOMAIN goals }

\* C7: resolveGoal(exercise, level) is the Goal Table's string for every pair
\* of the table and "-" for every other pair, and the goal of the entry the
\* logging flow appends is resolveGoal of the exercise and level chosen at
\* the menus, whatever was typed at the prompts.
C7_GoalIsResolved ==
  /\ \A exercise \in ExerciseNames, level \in LevelNames :
       LET rows3 == {r \in GoalRows : r[1] = exercise /\ r[2] = level}
       IN IF rows3 = {} THEN resolveGoal(exercise, level) = "-"
          ELSE \A r \in rows3 : resolveGoal(exercise, level) = r[3]
  /\ ret.op = "Append"
       => /\ ret.entry.Exercise = env.exercise /\ ret.entry.Level = env.level
          /\ ret.entry.Goal = resolveGoal(env.exercise, env.level)
          /\ <<ret.entry.Exercise, ret.entry.Level, ret.entry.Goal>> \in GoalRows

\* the logging flow has saved a Pullups entry of level Full: its goal is the
\* table's "10x2", not what was typed as reps and sets
C7_Witness ==
  /\ pc = "exit" /\ ret.op = "Append" /\ ret.err = "none"
  /\ ret.entry.Exercise = "Pullups" /\ ret.entry.Level = "Full"
  /\ ret.entry.Goal = "10x2" /\ ret.entry.RepsSets = "8x2"
  /\ stored # <<>> /\ Last(stored) = ret.entry

\* a tutorial table is faulty when an entry names an exercise or a level the
\* Goal Table lacks, or has a link that, white space at its ends aside, does
\* not start with the required prefix
Faulty(table) ==
  \E exercise \in DOMAIN table :
    \/ exercise \notin DOMAIN goals
    \/ \E level \in DOMAIN table[exercise] :
         \/ level \notin DOMAIN goals[exercise]
         \/ ~HasPrefix(TrimSpace(table[exercise][level]), TutorialPrefix)

MappingError(e) == HasPrefix(e.diag, "Tutorial link mapping error")

\* C10: the validation of the tutorial table is the first thing a run does;
\* when the table is faulty the run ends there with status 1, before any
\* storage is configured and before any prompt is shown; when it is not, the
\* validation passes; and the shipped table is not faulty.
C10_ValidationComesFirst ==
  /\ trace # <<>> => trace[1] = "validateTutorialMappings"
  /\ (pc # "start" /\ Faulty(TutorialTable(env.table)))
       => /\ pc = "exit" /\ env.code = 1 /\ MappingError(env)
          /\ trace = <<"validateTutorialMappings", "stderr", "exit">>
  /\ (pc # "start" /\ ~Faulty(TutorialTable(env.table))) => ~MappingError(env)
  /\ ~Faulty(tutorials)
  /\ (pc # "start" /\ env.table = "shipped") => ~MappingError(env)

\* a build whose table names a level the Goal Table lacks has ended at the
\* validation
C10_Witness ==
  /\ env.table = "unknown level" /\ pc = "exit" /\ env.code = 1
  /\ trace = <<"validateTutorialMappings", "stderr", "exit">>
  /\ stored = pre.stored /\ ret = NoRet

(***************************************************************************)
(* The line form (specifications SpecLine and SpecFile).                   *)
(***************************************************************************)
Fields(e) == <<e.Date, e.Day, e.Exercise, e.Level, e.RepsSets, e.Goal, e.Comment>>

\* C8, as claimed: an entry whose seven fields hold no '|' is read back from
\* its line, scanned and trimmed, as one entry equal to it field for field.
C8_RoundTrip ==
  (pc = "read" /\ \A k \in 1..7 : IndexByte(Fields(env)[k], "|") = 0)
    => /\ Len(ret.out) = 1
       /\ ret.out[1].ok
       /\ ret.out[1].entry = env

\* C8, amended: the same for an entry whose fields hold neither '|' nor a
\* line break, whose Date starts with no white space and whose Comment ends
\* with none.
C8_RoundTripTrimmed ==
  (pc = "read"
     /\ \A k \in 1..7 : IndexByte(Fields(env)[k], "|") = 0 /\ IndexByte(Fields(env)[k], "\n") = 0
     /\ TrimLeft(env.Date) = env.Date /\ TrimRight(env.Comment) = env.Comment)
    => /\ Len(ret.out) = 1
       /\ ret.out[1].ok
       /\ ret.out[1].entry = env

\* an entry with an empty date, a day label with spaces around it, empty
\* reps and a tab inside its comment was read back as it was
C8_Witness ==
  /\ pc = "read" /\ env.Date = "" /\ env.Day = " A " /\ env.RepsSets = ""
  /\ env.Comment = "a\tb" /\ env.Exercise = "Leg Raises"
  /\ ret.out = <<[entry |-> env, ok |-> TRUE]>>

\* a line of fewer than 7 fields, as the read paths see it
ShortLine(line) == Cardinality(Positions(TrimSpace(line), "|")) < 6

\* the year file without its short lines
WithoutShortLines(fs) ==
  [n \in DOMAIN fs |-> SelectSeq(fs[n], LAMBDA line : ~ShortLine(line))]

\* C9: parseLogLine refuses every line of fewer than 7 fields, and Recent,
\* SearchByDate and LastTrainingDay on the local backend return without
\* error what they return on the same file with those lines taken out.
C9_ShortLinesSkipped ==
  /\ \A n \in DOMAIN files : \A k \in 1..Len(files[n]) :
       ShortLine(files[n][k]) => ~parseLogLine(TrimSpace(files[n][k])).ok
  /\ ret.op = "Recent"
       => ret.err = "none" /\ ret.out = FileRecent(WithoutShortLines(files), ret.limit, "ok").out
  /\ ret.op = "SearchByDate"
       => ret.err = "none"
          /\ ret.out = FileSearchByDate(WithoutShortLines(files), ret.date, "ok").out
  /\ ret.op = "LastTrainingDay"
       => ret.err = "none" /\ ret.out = FileLastTrainingDay(WithoutShortLines(files), "ok").out

\* Recent has returned the two entries that stand around a line cut short
C9_Witness ==
  /\ ret.op = "Recent" /\ ret.err = "none" /\ Len(ret.out) = 2
  /\ \E n \in DOMAIN files :
       /\ Len(files[n]) = 3
       /\ ShortLine(files[n][2]) /\ files[n][2] # ""
       /\ ~ShortLine(files[n][1]) /\ ~ShortLine(files[n][3])

(***************************************************************************)
(* Failures of the file system (specification SpecFault).                  *)
(***************************************************************************)
\* the year file a read call looks for
ReadFile ==
  IF ret.op = "SearchByDate" THEN LogFileS(SubSeq(ret.date, 1, 4)) ELSE LogFileD(NowYear)

ReadOps == {"Recent", "SearchByDate", "LastTrainingDay"}

EmptyResult == IF ret.op = "LastTrainingDay" THEN <<"", "">> ELSE <<>>

\* C11: on the local backend Recent, SearchByDate and LastTrainingDay return
\* an empty result and no error when the year file is missing (the open
\* fails for its absence only), and an error when the file exists and the
\* open or the scan fails.
C11_AbsentIsEmptyUnreadableIsError ==
  ret.op \in ReadOps
    => /\ (ReadFile \notin DOMAIN files /\ ret.io # "open")
            => ret.err = "none" /\ ret.out = EmptyResult
       /\ (ReadFile \in DOMAIN files /\ ret.io \in {"open", "scan"})
            => ret.err # "none"

\* a search has failed on last year's file, which exists and could not be
\* scanned, while this year's file is missing
C11_Witness ==
  /\ ret.op = "SearchByDate" /\ ret.date = "2025-12-30" /\ ret.io = "scan"
  /\ ret.err # "none"
  /\ ReadFile \in DOMAIN files /\ LogFileD(NowYear) \notin DOMAIN files
  /\ stored # <<>>

(***************************************************************************)
(* Failures and the tutorial prompt in main (specification SpecMain).      *)
(***************************************************************************)
StorageCalls ==
  {"newStorage", "Append", "Recent", "SearchByDate", "RemoveByDateIndex", "LastTrainingDay"}

Failed(event) == \E call \in StorageCalls : event = call \o ":error"

\* C12, as claimed: whenever newStorage or a storage operation has returned
\* an error, the next things the run does are to print a diagnostic and to
\* exit with status 1.
C12_FailuresPropagate ==
  \A i \in 1..Len(trace) :
    Failed(trace[i])
      => /\ Len(trace) = i + 2
         /\ trace[i + 1] = "stderr" /\ trace[i + 2] = "exit"
         /\ pc = "exit" /\ env.code = 1

\* the calls of Append the run has made
Saved == Cardinality({i \in 1..Len(trace) : trace[i] \in {"Append", "Append:error"}})

\* the events that directly followed an event of the run
After(event) ==
  {trace[i + 1] : i \in {j \in 1..(Len(trace) - 1) : trace[j] = event}}

Opened == "openURL" \in After("prompt:Tutorial")

OpenFailed == "openURL:error" \in After("prompt:Tutorial")

Declined == "prompt:RepsSets" \in After("prompt:Tutorial")

NoTutorial == "prompt:RepsSets" \in After("prompt:Level")

\* C13: in the logging flow, once the user has accepted the tutorial prompt
\* and the link has opened, the run has ended with no call of Append; once
\* the prompt was declined, the pair had no tutorial or the open failed, the
\* run is at the prompts for reps or comment with no call of Append yet, or
\* has ended after exactly one.
C13_TutorialOrLog ==
  /\ Opened => pc = "exit" /\ env.code = 0 /\ Saved = 0 /\ stored = pre.stored
  /\ (Declined \/ NoTutorial \/ OpenFailed)
       => IF pc = "exit" THEN Saved = 1 /\ ret.op = "Append"
          ELSE Saved = 0 /\ pc \in {"reps", "comment"}

\* the tutorial was asked for and did not open, and the run went on and
\* saved the entry
C13_Witness ==
  /\ OpenFailed /\ pc = "exit" /\ env.code = 0 /\ Saved = 1
  /\ ret.op = "Append" /\ ret.err = "none" /\ Last(stored) = ret.entry

(***************************************************************************)
(* The two backends compared (specification SpecPair)                      *)
(***************************************************************************)
\* C14: whatever the caller has appended and removed, with entries dated in
\* the current year and free of delimiters, newlines and edge whitespace,
\* the two backends answer alike: Recent, SearchByDate and LastTrainingDay
\* return the same entries (RowIndex apart) and both succeed or both fail,
\* and every RemoveByDateIndex succeeds on both or fails on both.
C14_BackendsAgree ==
  /\ ret.op \in {"Recent", "SearchByDate"}
       => /\ Bare(ret.out[1]) = Bare(ret.out[2])
          /\ (ret.err[1] = "none") <=> (ret.err[2] = "none")
  /\ ret.op = "LastTrainingDay"
       => /\ ret.out[1] = ret.out[2]
          /\ (ret.err[1] = "none") <=> (ret.err[2] = "none")
  /\ ret.op = "RemoveByDateIndex"
       => ((ret.err[1] = "none") <=> (ret.err[2] = "none"))

(***************************************************************************)
(* Row numbers of the remote backend (specification SpecSheet)             *)
(***************************************************************************)
\* the cells of a sheet row as the entry they are read as
EntryOfRow(row, r) ==
  [Date |-> IF Len(row) > 0 THEN row[1] ELSE "", Day |-> IF Len(row) > 1 THEN row[2] ELSE "",
   Exercise |-> IF Len(row) > 2 THEN row[3] ELSE "", Level |-> IF Len(row) > 3 THEN row[4] ELSE "",
   RepsSets |-> IF Len(row) > 4 THEN row[5] ELSE "", Goal |-> IF Len(row) > 5 THEN row[6] ELSE "",
   Comment |-> IF Len(row) > 6 THEN row[7] ELSE "", RowIndex |-> r]

\* a row that holds no entry: a blank first cell, or a header
SkippedRow(row) == row = <<>> \/ row[1] = "" \/ EqualFold(row[1], "date")

\* the zero-based positions of the rows of sheet that hold an entry dated date
RawRowsOf(sheet, date) ==
  {r \in 0..(Len(sheet) - 1) : ~SkippedRow(sheet[r + 1]) /\ sheet[r + 1][1] = date}

\* the set s without its n smallest members
RECURSIVE DropSmallest(_, _)
DropSmallest(s, n) ==
  IF n = 0 \/ s = {} THEN s
  ELSE DropSmallest(s \ {CHOOSE x \in s : \A y \in s : x <= y}, n - 1)

\* C15: every entry the remote backend returns carries as RowIndex the
\* zero-based position of its row in the sheet, skipped rows (empty first cell,
\* or "date" in any case) counted; and a RemoveByDateIndex(date, i) that
\* succeeds has sent exactly one delete request, for the rows [r, r+1) where r
\* is the position of the i-th row dated date, and the sheet has lost that row
\* and nothing else.
C15_RowIndexIsRawPosition ==
  /\ (ret.op \in {"Recent", "SearchByDate"} /\ ret.err = "none")
       => \A k \in 1..Len(ret.out) :
            /\ ret.out[k].RowIndex \in 0..(Len(rows) - 1)
            /\ ret.out[k] = EntryOfRow(rows[ret.out[k].RowIndex + 1], ret.out[k].RowIndex)
            /\ k > 1 => ret.out[k - 1].RowIndex < ret.out[k].RowIndex
  /\ (ret.op = "SearchByDate" /\ ret.err = "none")
       => {ret.out[k].RowIndex : k \in 1..Len(ret.out)} = RawRowsOf(rows, ret.date)
  /\ (ret.op = "RemoveByDateIndex" /\ ret.err = "none")
       => LET left == DropSmallest(RawRowsOf(pre.rows, ret.date), ret.index)
              r == CHOOSE x \in left : \A y \in left : x <= y
          IN /\ left # {}
             /\ ret.requests = <<[StartIndex |-> r, EndIndex |-> r + 1]>>
             /\ rows = SubSeq(pre.rows, 1, r) \o SubSeq(pre.rows, r + 2, Len(pre.rows))

\* the only entry of a date is removed from a sheet that has a header row
\* and a blank row above it
C15_Witness ==
  /\ ret.op = "RemoveByDateIndex" /\ ret.err = "none" /\ ret.index = 0
  /\ Len(pre.rows) = 3 /\ pre.rows[1] = HeaderRow /\ pre.rows[2] = <<>>
  /\ ret.requests = <<[StartIndex |-> 2, EndIndex |-> 3]>>
  /\ rows = <<HeaderRow, <<>>>>

(***************************************************************************)
(* Years and backends (specification Spec)                                 *)
(***************************************************************************)
\* the date starts with the four digits of the current wall-clock year
OfThisYear(date) == Len(date) >= 4 /\ SubSeq(date, 1, 4) = Itoa(NowYear)

\* C16: the local backend's Recent and LastTrainingDay return nothing dated
\* in another year than the current one, whatever was appended; the remote
\* backend's Recent returns the last entries of the whole sheet and its
\* LastTrainingDay the last entry of the whole sheet, whatever their years.
C16_YearBoundOnlyLocally ==
  /\ (backend = "local" /\ ret.op = "Recent")
       => \A k \in 1..Len(ret.out) : OfThisYear(ret.out[k].Date)
  /\ (backend = "local" /\ ret.op = "LastTrainingDay" /\ ret.out # <<"", "">>)
       => OfThisYear(ret.out[2])
  /\ (backend = "sheets" /\ ret.op = "Recent")
       => Bare(ret.out)
            = SubSeq(stored, Len(stored) - Min(ret.limit, Len(stored)) + 1, Len(stored))
  /\ (backend = "sheets" /\ ret.op = "LastTrainingDay" /\ stored # <<>>)
       => ret.out = <<Last(stored).Day, Last(stored).Date>>

\* the newest stored entry is of last year, and the local LastTrainingDay
\* answers with the older entry of this year
C16_Witness ==
  /\ backend = "local" /\ ret.op = "LastTrainingDay" /\ ret.err = "none"
  /\ Len(stored) = 2 /\ ~OfThisYear(stored[2].Date) /\ OfThisYear(stored[1].Date)
  /\ ret.out = <<stored[1].Day, stored[1].Date>>

(***************************************************************************)
(* A removal and an append at once (specification SpecRace)                *)
(***************************************************************************)
\* the line Append writes for the appender's entry
AppendedLine ==
  SubSeq(serializeLogEntry(env.entry), 1, Len(serializeLogEntry(env.entry)) - 1)

BothReturnedOk ==
  env.rpc = "done" /\ env.apc = "done" /\ env.rerr = "none" /\ env.aerr = "none"

\* C17: when the appender's write lands after the remover has scanned the
\* year file and before the remover creates it anew, and both calls return
\* ok, the appended line is lost: the file is what the removal alone leaves of
\* the lines it scanned, without the appended line.  An append written after
\* the removal has returned stays, as the last line.
C17_AppendInWindowIsLost ==
  LET logFile == LogFileD(NowYear)
  IN /\ (BothReturnedOk /\ env.wroteAt = "scanned")
          => /\ files[logFile]
                  = FileRemoveByDateIndex(pre.files, env.date, env.index, "ok", 0).files[logFile]
             /\ \A k \in 1..Len(files[logFile]) : files[logFile][k] # AppendedLine
     /\ (BothReturnedOk /\ env.wroteAt = "done")
          => files[logFile] # <<>> /\ Last(files[logFile]) = AppendedLine

\* both calls have returned ok, the append was written between the scan and
\* the re-creation of a file of two lines, and the file holds one line, not
\* the appended one
C17_Witness ==
  /\ BothReturnedOk /\ env.wroteAt = "scanned"
  /\ Len(pre.files[LogFileD(NowYear)]) = 2
  /\ Len(files[LogFileD(NowYear)]) = 1
  /\ files[LogFileD(NowYear)][1] # AppendedLine

(***************************************************************************)
(* The same removal twice (specification SpecTwice)                        *)
(***************************************************************************)
\* C18: after RemoveByDateIndex(date, i) has succeeded on a store with n
\* entries matching date, the same call again does not abort; when i < n-1
\* it succeeds and removes the entry that was the (i+1)-th match at the
\* start, so that the matches left are the first ones without their i-th and
\* (i+1)-th; when i = n-1 it returns the invalid-index error and leaves the
\* storage as the first call left it.
C18_SecondRemoveShifts ==
  pc = "twice"
    => LET orig == Bare(SearchIn(env.orig, env.date).out)
           n == Len(orig)
           i == env.index
       IN /\ i < n
          /\ ret.err # "panic"
          /\ IF i < n - 1
             THEN /\ ret.err = "none"
                  /\ Bare(SearchIn(Snapshot, env.date).out)
                       = RemoveAt(RemoveAt(orig, i + 1), i + 1)
                  /\ Len(stored) = Len(env.orig.stored) - 2
                  /\ IsSubseq(stored, env.orig.stored)
             ELSE /\ ret.err = "invalid remove index"
                  /\ files = pre.files /\ rows = pre.rows /\ stored = pre.stored
                  /\ Len(stored) = Len(env.orig.stored) - 1

\* of three entries of one date, the second was removed, and the same call
\* again has removed the third: the first is left
C18_Witness ==
  /\ pc = "twice" /\ ret.err = "none" /\ env.index = 1
  /\ Len(env.orig.stored) = 3
  /\ \A k \in 1..3 : env.orig.stored[k].Date = env.date
  /\ env.orig.stored[1] # env.orig.stored[3]
  /\ stored = <<env.orig.stored[1]>>

(***************************************************************************)
(* What each operation leaves alone (specification Spec)                   *)
(***************************************************************************)
\* the storage units of a snapshot: the lines of every year file, or the rows
\* of the sheet
RawUnits(snap) ==
  IF backend = "local" THEN snap.files ELSE [n \in {"sheet"} |-> snap.rows]

\* unit u as snapshot snap holds it, empty when it does not exist
Held(snap, u) ==
  IF u \in DOMAIN RawUnits(snap) THEN RawUnits(snap)[u] ELSE <<>>

\* C19: Recent, SearchByDate and LastTrainingDay leave the storage as it is;
\* an Append that succeeds adds the text of its entry as the last line of the
\* entry's year file, or the last row of the sheet, and leaves every other
\* line, row and file as it was; RemoveByDateIndex takes one line or row out
\* of one file or of the sheet, or nothing, and leaves the text and the order
\* of all the others as they were.
C19_EntriesAreNotModified ==
  LET now == Snapshot
      units == (DOMAIN RawUnits(pre)) \cup (DOMAIN RawUnits(now))
  IN /\ ret.op \in {"Recent", "SearchByDate", "LastTrainingDay"}
          => files = pre.files /\ rows = pre.rows /\ stored = pre.stored
     /\ (ret.op = "Append" /\ ret.err = "none")
          => /\ Held(now, UnitOf(ret.entry)) = Held(pre, UnitOf(ret.entry)) \o <<TextOf(ret.entry)>>
             /\ \A u \in units \ {UnitOf(ret.entry)} : Held(now, u) = Held(pre, u)
             /\ stored = pre.stored \o <<ret.entry>>
     /\ ret.op = "RemoveByDateIndex"
          => \/ files = pre.files /\ rows = pre.rows /\ ret.err # "none"
             \/ /\ ret.err = "none"
                /\ DOMAIN RawUnits(now) = DOMAIN RawUnits(pre)
                /\ \E u \in units :
                     /\ \E p \in 1..Len(Held(pre, u)) : Held(now, u) = RemoveAt(Held(pre, u), p)
                     /\ \A v \in units \ {u} : Held(now, v) = Held(pre, v)

\* an entry of another year than the one stored has been appended: it is
\* the only line of its year file, and the file of the first is as it was
C19_Witness ==
  /\ backend = "local" /\ ret.op = "Append" /\ ret.err = "none"
  /\ Len(pre.stored) = 1 /\ UnitOf(pre.stored[1]) # UnitOf(ret.entry)
  /\ Held(Snapshot, UnitOf(pre.stored[1])) = <<TextOf(pre.stored[1])>>
  /\ Held(Snapshot, UnitOf(ret.entry)) = <<TextOf(ret.entry)>>

(***************************************************************************)
(* Search and removal on one file (specification SpecEdited)               *)
(***************************************************************************)
\* C20: on the local backend, whatever the year file holds,
\* RemoveByDateIndex(date, i) succeeds exactly when 0 <= i < the number of
\* entries SearchByDate(date) returns, and then the line it takes out is the
\* line of the i-th entry of that result: the line reads as that entry, and
\* a search after the removal returns the former result without it.
C20_RemoveAgreesWithSearch ==
  ret.op = "RemoveByDateIndex"
    => LET shown == FileSearchByDate(pre.files, ret.date, "ok").out
           logFile == LogFileD(NowYear)
           valid == ret.index >= 0 /\ ret.index < Len(shown)
       IN /\ (ret.err = "none") <=> valid
          /\ valid
               => /\ \E p \in 1..Len(pre.files[logFile]) :
                       /\ files[logFile] = RemoveAt(pre.files[logFile], p)
                       /\ parseLogLine(TrimSpace(pre.files[logFile][p])).entry
                            = shown[ret.index + 1]
                  /\ FileSearchByDate(files, ret.date, "ok").out
                       = RemoveAt(shown, ret.index + 1)

(***************************************************************************)
(* The lookup tables and the menus (specification SpecMenu)                *)
(***************************************************************************)
\* the members of a sequence
Range(seq) == {seq[k] : k \in 1..Len(seq)}

NoDuplicates(seq) == Cardinality(Range(seq)) = Len(seq)

\* C21: the exercise list, the Goal Table and the level-order table have the
\* same six exercise keys; for every exercise the level-order list is not
\* empty, has no duplicates and lists exactly the Goal Table's levels of the
\* exercise; and whatever is typed at the two menus, the exercise and level
\* the logging flow has picked are a pair of the Goal Table and the goal of
\* the entry it appends is not "-".
C21_TablesAgree ==
  /\ Len(exercises) = 6 /\ NoDuplicates(exercises)
  /\ Range(exercises) = DOMAIN goals
  /\ DOMAIN levelOrder = DOMAIN goals
  /\ \A x \in DOMAIN goals :
       /\ getLevelsForExercise(x) # <<>>
       /\ NoDuplicates(getLevelsForExercise(x))
       /\ Range(getLevelsForExercise(x)) = DOMAIN goals[x]
  /\ pc \in {"level", "tutorial", "reps", "comment", "exit"}
       => env.exercise \in DOMAIN goals
  /\ pc \in {"tutorial", "reps", "comment", "exit"}
       => env.level \in DOMAIN goals[env.exercise]
  /\ ret.op = "Append"
       => /\ ret.entry.Goal # "-"
          /\ ret.entry.Goal = goals[ret.entry.Exercise][ret.entry.Level]

\* with 4 and then 10 typed at the menus, the flow has saved an entry of Leg
\* Raises, whose menu has nine items, at its first level
C21_Witness ==
  /\ pc = "exit" /\ ret.op = "Append" /\ ret.err = "none"
  /\ ret.entry.Exercise = exercises[4]
  /\ Len(getLevelsForExercise(exercises[4])) = 9
  /\ ret.entry.Level = getLevelsForExercise(exercises[4])[1]
  /\ ret.entry.Goal = goals[exercises[4]][ret.entry.Level]

(***************************************************************************)
(* The year file of a date (specification SpecYear)                        *)
(***************************************************************************)
\* C22: on the local backend an Append of an entry whose date has at least 4
\* characters writes its line to the year file that SearchByDate and
\* RemoveByDateIndex read for that date, the file named after the first four
\* characters of the date: that file has grown by the line, and a search for
\* the date made next finds the entry.
C22_AppendAndSearchShareTheFile ==
  /\ (ret.op = "Append" /\ ret.err = "none" /\ Len(ret.entry.Date) >= 4)
       => LET logFile == LogFileS(SubSeq(ret.entry.Date, 1, 4))
          IN /\ logFile \in DOMAIN files
             /\ files[logFile] = Held(pre, logFile) \o <<TextOf(ret.entry)>>
             /\ FileSearchByDate(files, ret.entry.Date, "ok").out # <<>>
  /\ (ret.op = "SearchByDate" /\ ret.err = "none" /\ ret.out = <<>>)
       => \A k \in 1..Len(stored) : stored[k].Date # ret.date

(***************************************************************************)
(* Removals that fail (specification SpecFault)                            *)
(***************************************************************************)
\* C23: on the local backend a RemoveByDateIndex that returns an error,
\* whichever it is, leaves every year file with the lines it had before the
\* call, so that no stored entry is lost by it.
C23_FailedRemoveChangesNothing ==
  (ret.op = "RemoveByDateIndex" /\ ret.err # "none")
    => files = pre.files /\ stored = pre.stored

====
